---- MODULE Spec2Model ----
(***************************************************************************)
(* Nexus predictive scheduler: the Dispatcher with its circuit breaker,    *)
(* the RoundRobinScheduler fallback and the WorkerRegistry it reads.       *)
(*                                                                         *)
(* dispatchTask is an async method: it is modelled as the segments between *)
(* its awaits (predictor.predict, redis.publish, redis.xack).  Registry    *)
(* operations, connect/disconnect and the clock may run between segments.  *)
(* One dispatchTask is in flight at a time (the consume loop awaits each   *)
(* call); it is either called for a stream message or directly, without a  *)
(* messageId.                                                              *)
(***************************************************************************)
EXTENDS Integers, Sequences, FiniteSets, TLC

(* ------------------------------ bounds -------------------------------- *)
WorkerIds == {"w1", "w2"}
Capabilities == {"gpu"}
Statuses == {"idle", "busy", "draining", "offline"}
\* statuses written while dispatching ("busy" is read everywhere like "idle")
StatusInputs == {"idle", "draining", "offline"}
MaxTicks == 1
MaxMsgs == 1
MaxActive == 1
MaxStreams == 2
MaxSamples == 3

(* ------------------------- program constants -------------------------- *)
FallbackThreshold == 3
HeartbeatTimeoutMs == 30000

\* the clock advances in steps that let a heartbeat go stale
TickMs == HeartbeatTimeoutMs + 1

Null == 0 - 1
NoMsg == 0
MsgIds == 1..MaxMsgs

VARIABLES
  now,            \* wall clock (ms), the value of new Date()
  workers,        \* WorkerRegistry.workers: Map in insertion order
  lastIndex,      \* RoundRobinScheduler.lastIndex
  circuitBreaker, \* Dispatcher.circuitBreaker
  redis,          \* Dispatcher.redis: "null" or "connected"
  stream,         \* consumer-group state of each stream message
  call,           \* the dispatchTask call in flight (or the last one)
  predictorHealthy, \* the predictor now returns a usable prediction for every task
  hist,           \* history: predictor failures, messages published
  running,        \* Dispatcher.running
  malformed,      \* the stream messages whose fields parseTask cannot parse
  workerCapacity, \* HeartbeatSubscriber.workerCapacity
  grpcStream,     \* HeartbeatSubscriber.stream
  streams,        \* the gRPC heartbeat streams handed to subscribe
  healthCheckInterval, \* HeartbeatSubscriber.healthCheckInterval is set
  isRunning,      \* HeartbeatSubscriber.isRunning
  config,         \* HeartbeatSubscriber.config
  eventLog,       \* history: workerStateChange events emitted per worker
  predictions,    \* HeuristicPredictor.predictions
  feedbackLog,    \* history: the durations fed back per task type since its last reset
  persistence,    \* HeuristicPredictor.persistence: its connected flag and update counter
  snapshot,       \* the value under redisKey, and whether a write to it has failed
  pcall,          \* the feedback or shutdown call of the predictor in flight (or the last one)
  fallbackLog,    \* history: the decisions returned by the RoundRobinScheduler
  completionSubscriber, \* CompletionSubscriber: isRunning, completionCount, predictor
  samples,        \* AccuracyTracker.samples
  pending,        \* the processCompletion call in flight (or the last one)
  feedbackHist,   \* history: samples recorded, feedback events emitted, calls made
  driftCall,      \* a detectDrift call: its arguments and its result
  weights,        \* MultiObjectiveScorer.config.weights, in tenths
  scoreCall,      \* the last MultiObjectiveScorer.score call: its arguments and its result
  loops,          \* the consumeLoop invocations: where each one stands, and its batch
  apiConfig,      \* SchedulerHandlers.config
  request,        \* the handler call in flight (or the last one) and its response
  clickHouseWriter, \* ClickHouseWriter: client, buffer
  inserts,        \* the client.insert calls in flight: the batch of each
  writerHist      \* history: records written, records inserted

loopVars == <<running, malformed>>

predVars == <<predictions, feedbackLog>>

\* the components that the dispatcher, the registry and the subscriber do not touch
persistVars == <<persistence, snapshot, pcall>>

predictorVars == <<predVars, persistVars>>

fallbackVars == <<fallbackLog>>

feedbackVars == <<completionSubscriber, samples, pending, feedbackHist>>

\* what the operations of one component leave alone among the others
scorerVars == <<weights, scoreCall>>

handlerVars == <<apiConfig, request>>

writerVars == <<clickHouseWriter, inserts, writerHist>>

exceptPredictor == <<fallbackVars, feedbackVars, driftCall, scorerVars, loops, handlerVars, writerVars>>
exceptFallback == <<predictorVars, feedbackVars, driftCall, scorerVars, loops, handlerVars, writerVars>>
exceptFeedback == <<fallbackVars, driftCall, scorerVars, loops, handlerVars, writerVars>>
exceptScorer == <<predictorVars, fallbackVars, feedbackVars, driftCall, loops, handlerVars, writerVars>>
exceptDrift == <<predictorVars, fallbackVars, feedbackVars, scorerVars, loops, handlerVars, writerVars>>
exceptLoop == <<predictorVars, fallbackVars, feedbackVars, driftCall, scorerVars, handlerVars, writerVars>>

exceptHandlers == <<predictorVars, fallbackVars, feedbackVars, driftCall, scorerVars, loops, writerVars>>

exceptWriter == <<predictorVars, fallbackVars, feedbackVars, driftCall, scorerVars, loops, handlerVars>>

extVars == <<predictorVars, fallbackVars, feedbackVars, driftCall, scorerVars, loops, handlerVars, writerVars>>

hbVars == <<workerCapacity, grpcStream, streams, healthCheckInterval, isRunning, config>>

\* the state outside the dispatchTask call and the registry
auxVars == <<loopVars, hbVars, eventLog, extVars>>

vars == <<now, workers, lastIndex, circuitBreaker, redis, stream, call, predictorHealthy, hist,
          auxVars>>

(* ---------------------------- WorkerRegistry -------------------------- *)
Has(ws, id) == \E i \in 1..Len(ws) : ws[i].id = id

IndexOf(ws, id) == CHOOSE i \in 1..Len(ws) : ws[i].id = id

\* Map.set: an existing key keeps its position, a new key is appended
MapSet(ws, w) ==
  IF Has(ws, w.id) THEN [ws EXCEPT ![IndexOf(ws, w.id)] = w] ELSE Append(ws, w)

MapDelete(ws, id) == SelectSeq(ws, LAMBDA w : w.id # id)

get(ws, id) == ws[IndexOf(ws, id)]

Clamp01(load) == IF load < 0 THEN 0 ELSE IF load > 100 THEN 100 ELSE load

\* mutant: a worker at max capacity is not skipped
IsAvailable_IgnoresCapacity(w, capabilities, t) ==
  /\ w.status # "offline"
  /\ w.status # "draining"
  /\ ~(t - w.lastHeartbeat > HeartbeatTimeoutMs)
  /\ capabilities \subseteq w.capabilities

IsAvailable(w, capabilities, t) ==
  /\ w.status # "offline"
  /\ w.status # "draining"
  /\ ~(t - w.lastHeartbeat > HeartbeatTimeoutMs)
  /\ ~(w.activeTasks >= w.maxConcurrency)
  /\ capabilities \subseteq w.capabilities

getAvailable(ws, capabilities, t) ==
  SelectSeq(ws, LAMBDA w : IsAvailable(w, capabilities, t))

AvailableIds(ws, capabilities, t) ==
  {ws[i].id : i \in {j \in 1..Len(ws) : IsAvailable(ws[j], capabilities, t)}}

(* -------------------------- RoundRobinScheduler ----------------------- *)
NoDecision == [taskId |-> NoMsg, workerId |-> "", usedFallback |-> FALSE, reason |-> "none"]

Decision(taskId, workerId, usedFallback, reason) ==
  [taskId |-> taskId, workerId |-> workerId, usedFallback |-> usedFallback, reason |-> reason]

\* mutant: the cursor advances by two
schedule_SkipsOne(ws, cursor, taskId, capabilities, t, reason) ==
  LET available == getAvailable(ws, capabilities, t)
      next == (cursor + 2) % Len(available)
  IN IF Len(available) = 0
     THEN [decision |-> NoDecision, lastIndex |-> cursor]
     ELSE [decision |-> Decision(taskId, available[next + 1].id, TRUE, reason),
           lastIndex |-> next]

\* schedule(task, reason): the decision (NoDecision for null) and the new cursor
schedule(ws, cursor, taskId, capabilities, t, reason) ==
  LET available == getAvailable(ws, capabilities, t)
      next == (cursor + 1) % Len(available)
  IN IF Len(available) = 0
     THEN [decision |-> NoDecision, lastIndex |-> cursor]
     ELSE [decision |-> Decision(taskId, available[next + 1].id, TRUE, reason),
           lastIndex |-> next]

(* ---------------------------- circuit breaker ------------------------- *)
ClosedBreaker == [failures |-> 0, lastFailure |-> Null, isOpen |-> FALSE]

\* mutant: the breaker opens one failure late
recordFailure_OffByOne(cb, t) ==
  [failures |-> cb.failures + 1,
   lastFailure |-> t,
   isOpen |-> IF cb.failures + 1 > FallbackThreshold THEN TRUE ELSE cb.isOpen]

\* mutant: the time of the failure is not recorded
recordFailure_NoTimestamp(cb, t) ==
  [failures |-> cb.failures + 1,
   lastFailure |-> cb.lastFailure,
   isOpen |-> IF cb.failures + 1 >= FallbackThreshold THEN TRUE ELSE cb.isOpen]

recordFailure(cb, t) ==
  [failures |-> cb.failures + 1,
   lastFailure |-> t,
   isOpen |-> IF cb.failures + 1 >= FallbackThreshold THEN TRUE ELSE cb.isOpen]

\* mutant: only the open flag is cleared
resetCircuitBreaker_KeepsCount(cb) == [cb EXCEPT !.isOpen = FALSE]

resetCircuitBreaker(cb) == ClosedBreaker

(* ------------------------------ Dispatcher ---------------------------- *)
\* a predictor.predict outcome: it throws, resolves to null, or to a prediction
Outcomes ==
  {[kind |-> "throws", recommendedWorkerId |-> ""], [kind |-> "null", recommendedWorkerId |-> ""]}
    \cup {[kind |-> "prediction", recommendedWorkerId |-> id] : id \in WorkerIds \cup {""}}

IdleCall ==
  [pc |-> "idle", msg |-> NoMsg, caps |-> {}, decision |-> NoDecision,
   success |-> FALSE, error |-> "", trace |-> <<>>, startedOpen |-> FALSE,
   failedBefore |-> FALSE, selectedAvailable |-> FALSE, noneAvailable |-> FALSE,
   pred |-> "none"]

\* return { success, decision, error }
Return(c, success, decision, error) ==
  [c EXCEPT !.pc = "done", !.success = success, !.decision = decision, !.error = error]

\* "Verify worker is available" (the check made on the predicted worker)
PredictedWorkerOk(ws, id) ==
  /\ Has(ws, id)
  /\ get(ws, id).status # "offline"
  /\ get(ws, id).status # "draining"

\* the decision placed in the result when no worker is available
NoWorkersDecision(taskId) == Decision(taskId, "", TRUE, "fallback_round_robin")

FallbackReason(cb) ==
  IF cb.isOpen THEN "fallback_circuit_breaker" ELSE "fallback_round_robin"

\* mutant: the message is acknowledged as soon as the decision is formed
Continue_AckFirst(c, dec1, cb1) ==
  LET sch == schedule(workers, lastIndex, c.msg, c.caps, now, FallbackReason(cb1))
      dec2 == IF dec1 = NoDecision THEN sch.decision ELSE dec1
      c1 == [c EXCEPT !.selectedAvailable =
                        dec2.workerId \in AvailableIds(workers, c.caps, now),
                      !.noneAvailable = (AvailableIds(workers, c.caps, now) = {}),
                      !.decision = dec2]
      c2 == [c1 EXCEPT !.trace = Append(c1.trace, "decision")]
  IN /\ circuitBreaker' = cb1
     /\ lastIndex' = IF dec1 = NoDecision THEN sch.lastIndex ELSE lastIndex
     /\ call' = IF dec2 = NoDecision
                THEN Return(c1, FALSE, NoWorkersDecision(c.msg), "No workers available")
                ELSE IF redis = "null"
                THEN Return(c2, TRUE, dec2, "")
                ELSE [c2 EXCEPT !.pc = "publish",
                                !.trace = c2.trace \o <<"xack", "publish">>]

\* mutant: no early return when there is no decision
Continue_PublishWithoutWorker(c, dec1, cb1) ==
  LET sch == schedule(workers, lastIndex, c.msg, c.caps, now, FallbackReason(cb1))
      dec2 == IF dec1 = NoDecision THEN sch.decision ELSE dec1
      c1 == [c EXCEPT !.selectedAvailable =
                        dec2.workerId \in AvailableIds(workers, c.caps, now),
                      !.noneAvailable = (AvailableIds(workers, c.caps, now) = {}),
                      !.decision = IF dec2 = NoDecision THEN NoWorkersDecision(c.msg) ELSE dec2]
      c2 == [c1 EXCEPT !.trace = Append(c1.trace, "decision")]
  IN /\ circuitBreaker' = cb1
     /\ lastIndex' = IF dec1 = NoDecision THEN sch.lastIndex ELSE lastIndex
     /\ call' = IF redis = "null"
                THEN Return(c2, TRUE, c1.decision, "")
                ELSE [c2 EXCEPT !.pc = "publish", !.trace = Append(c2.trace, "publish")]

\* dispatchTask from the fallback to the publish call, with the decision of
\* the prediction path (NoDecision when there is none) and the breaker after it
Continue(c, dec1, cb1) ==
  LET sch == schedule(workers, lastIndex, c.msg, c.caps, now, FallbackReason(cb1))
      dec2 == IF dec1 = NoDecision THEN sch.decision ELSE dec1
      c1 == [c EXCEPT !.selectedAvailable =
                        dec2.workerId \in AvailableIds(workers, c.caps, now),
                      !.noneAvailable = (AvailableIds(workers, c.caps, now) = {}),
                      !.decision = dec2]
      c2 == [c1 EXCEPT !.trace = Append(c1.trace, "decision")]
  IN /\ circuitBreaker' = cb1
     /\ lastIndex' = IF dec1 = NoDecision THEN sch.lastIndex ELSE lastIndex
     /\ call' = IF dec2 = NoDecision
                THEN Return(c1, FALSE, NoWorkersDecision(c.msg), "No workers available")
                ELSE IF redis = "null"
                THEN Return(c2, TRUE, dec2, "")
                ELSE [c2 EXCEPT !.pc = "publish", !.trace = Append(c2.trace, "publish")]

\* dispatchTask(task, messageId) up to its first await
dispatchTask(m, caps) ==
  /\ call.pc \in {"idle", "done"}
  /\ IF m = NoMsg
     THEN UNCHANGED stream
     ELSE /\ redis = "connected"
          /\ stream[m] = "new"
          /\ stream' = [stream EXCEPT ![m] = "pending"]
  /\ LET c0 == [IdleCall EXCEPT !.msg = m, !.caps = caps,
                                !.startedOpen = circuitBreaker.isOpen,
                                !.failedBefore = circuitBreaker.failures > 0]
     IN IF ~circuitBreaker.isOpen
        THEN /\ call' = [c0 EXCEPT !.pc = "predict", !.trace = <<"predict">>]
             /\ UNCHANGED <<circuitBreaker, lastIndex>>
        ELSE Continue(c0, NoDecision, circuitBreaker)

\* dispatchTask called by the consume loop or directly
DispatchStart(m, caps) ==
  /\ dispatchTask(m, caps)
  /\ UNCHANGED <<now, workers, redis, predictorHealthy, hist, auxVars>>

\* predictor.predict settles: the prediction path, then the rest up to publish
PredictDone(o) ==
  /\ call.pc = "predict"
  /\ predictorHealthy =>
       (o.kind = "prediction" /\ PredictedWorkerOk(workers, o.recommendedWorkerId))
  /\ LET valid == o.kind = "prediction" /\ PredictedWorkerOk(workers, o.recommendedWorkerId)
         pred == IF o.kind = "prediction"
                 THEN (IF valid THEN "valid" ELSE "invalid")
                 ELSE o.kind
         cb1 == IF o.kind = "throws" THEN recordFailure(circuitBreaker, now)
                ELSE IF valid THEN resetCircuitBreaker(circuitBreaker)
                ELSE circuitBreaker
         dec1 == IF valid
                 THEN Decision(call.msg, o.recommendedWorkerId, FALSE, "prediction")
                 ELSE NoDecision
     IN /\ Continue([call EXCEPT !.pred = pred], dec1, cb1)
        /\ hist' = [published |-> hist.published,
                    streak |-> IF o.kind = "throws"
                               THEN (IF hist.streak >= 0 THEN hist.streak + 1 ELSE Null)
                               ELSE IF valid \/ circuitBreaker.failures = 0 THEN 0
                               ELSE Null,
                    lastThrowAt |-> IF o.kind = "throws" THEN now
                                    ELSE IF valid THEN Null ELSE hist.lastThrowAt]
  /\ UNCHANGED <<now, workers, redis, stream, predictorHealthy, auxVars>>

\* mutant: the message is acknowledged whether or not the publish succeeded
PublishDone_AckOnFailure(ok) ==
  /\ call.pc = "publish"
  /\ call' = LET c1 == IF ok THEN [call EXCEPT !.trace = Append(call.trace, "published")]
                        ELSE call
             IN IF call.msg = NoMsg
                THEN Return(c1, ok, call.decision, IF ok THEN "" ELSE "publish failed")
                ELSE [c1 EXCEPT !.pc = "xack", !.trace = Append(c1.trace, "xack")]
  /\ hist' = IF ok /\ call.msg # NoMsg
             THEN [hist EXCEPT !.published = @ \cup {call.msg}]
             ELSE hist
  /\ UNCHANGED <<now, workers, lastIndex, circuitBreaker, redis, stream, predictorHealthy, auxVars>>

\* mutant: a published assignment is counted against the worker's capacity
PublishDone_CountsTask(ok) ==
  /\ call.pc = "publish"
  /\ call' = IF ~ok THEN Return(call, FALSE, call.decision, "publish failed")
             ELSE LET c1 == [call EXCEPT !.trace = Append(call.trace, "published")]
                  IN IF call.msg = NoMsg THEN Return(c1, TRUE, call.decision, "")
                     ELSE IF redis = "null"
                     THEN Return(c1, FALSE, call.decision, "redis is null")
                     ELSE [c1 EXCEPT !.pc = "xack", !.trace = Append(c1.trace, "xack")]
  /\ hist' = IF ok /\ call.msg # NoMsg
             THEN [hist EXCEPT !.published = @ \cup {call.msg}]
             ELSE hist
  /\ workers' = IF ok /\ Has(workers, call.decision.workerId)
                THEN [workers EXCEPT ![IndexOf(workers, call.decision.workerId)].activeTasks = @ + 1]
                ELSE workers
  /\ UNCHANGED <<now, lastIndex, circuitBreaker, redis, stream, predictorHealthy, auxVars>>

\* redis.publish settles; on success the message is acknowledged
PublishDone(ok) ==
  /\ call.pc = "publish"
  /\ call' = IF ~ok THEN Return(call, FALSE, call.decision, "publish failed")
             ELSE LET c1 == [call EXCEPT !.trace = Append(call.trace, "published")]
                  IN IF call.msg = NoMsg THEN Return(c1, TRUE, call.decision, "")
                     ELSE IF redis = "null"
                     THEN Return(c1, FALSE, call.decision, "redis is null")
                     ELSE [c1 EXCEPT !.pc = "xack", !.trace = Append(c1.trace, "xack")]
  /\ hist' = IF ok /\ call.msg # NoMsg
             THEN [hist EXCEPT !.published = @ \cup {call.msg}]
             ELSE hist
  /\ UNCHANGED <<now, workers, lastIndex, circuitBreaker, redis, stream, predictorHealthy, auxVars>>

\* mutant: a rejected xack is not caught
XackDone_Uncaught(ok) ==
  /\ call.pc = "xack"
  /\ call' = IF ok THEN Return(call, TRUE, call.decision, "")
             ELSE [call EXCEPT !.pc = "rejected"]
  /\ stream' = IF ok THEN [stream EXCEPT ![call.msg] = "acked"] ELSE stream
  /\ UNCHANGED <<now, workers, lastIndex, circuitBreaker, redis, predictorHealthy, hist, auxVars>>

\* redis.xack settles
XackDone(ok) ==
  /\ call.pc = "xack"
  /\ call' = IF ok THEN Return(call, TRUE, call.decision, "")
             ELSE Return(call, FALSE, call.decision, "xack failed")
  /\ stream' = IF ok THEN [stream EXCEPT ![call.msg] = "acked"] ELSE stream
  /\ UNCHANGED <<now, workers, lastIndex, circuitBreaker, redis, predictorHealthy, hist, auxVars>>

connect ==
  /\ redis = "null"
  /\ redis' = "connected"
  /\ UNCHANGED <<now, workers, lastIndex, circuitBreaker, stream, call, predictorHealthy, hist, auxVars>>

disconnect ==
  /\ redis = "connected"
  /\ running' = FALSE
  /\ redis' = "null"
  /\ UNCHANGED <<now, workers, lastIndex, circuitBreaker, stream, call, predictorHealthy, hist,
                 malformed, hbVars, eventLog, extVars>>

(* ------------------- HeartbeatSubscriber: constants ------------------- *)
UNHEALTHY_TIMEOUT_MS == 30000
REMOVED_TIMEOUT_MS == 300000
DEGRADED_LOAD == 90

DEFAULT_CONFIG ==
  [unhealthyTimeoutMs |-> UNHEALTHY_TIMEOUT_MS, removedTimeoutMs |-> REMOVED_TIMEOUT_MS]

StreamIds == 1..MaxStreams
NoStream == 0
NoCapacity == [healthStatus |-> "none", previousLoad |-> 0]
\* worker_unhealthy events since the worker's lastHeartbeat was last written,
\* worker_removed events since the worker was last registered (counted up to 2)
NoEvents == [unhealthy |-> 0, removed |-> 0]

HbInit ==
  /\ workerCapacity = [id \in WorkerIds |-> NoCapacity]
  /\ grpcStream = NoStream
  /\ streams = [s \in StreamIds |-> "unused"]
  /\ healthCheckInterval = FALSE
  /\ isRunning = FALSE
  /\ eventLog = [id \in WorkerIds |-> NoEvents]

(* ------------------------- HeuristicPredictor ------------------------- *)
TaskTypes == {"build", "test"}
\* feedback without a task type
NoType == ""
\* actualDurationMs values
Durations == {1000, 3000}

\* the smoothing factor, in tenths
Alpha == 3
defaultDurationMs == 5000

\* EMA values are fixed-point numbers with MaxSamples decimal digits, so that
\* every blend within the bound is exact
EmaScale == 10 ^ MaxSamples

NoState == [ema |-> 0, sampleCount |-> 0 - 1, lastUpdated |-> Null]

\* new Map()
EmptyMap == [t \in TaskTypes |-> NoState]
EmptyLog == [t \in TaskTypes |-> <<>>]

PredInit ==
  /\ predictions = EmptyMap
  /\ feedbackLog = EmptyLog

\* PersistenceConfig.snapshotInterval as configured here (100 by default)
snapshotInterval == 2
\* actualDurationMs of the feedback calls made while persistence is followed
TrackedDurations == {1000}

\* client.get(redisKey) returns null until a value has been set
NoSnapshot == [isSet |-> FALSE, value |-> EmptyMap, log |-> EmptyLog, writeFailed |-> FALSE]
Settled(op, pc) == [op |-> op, pc |-> pc, data |-> EmptyMap, log |-> EmptyLog]
IdlePcall == Settled("none", "idle")

PersistInit ==
  /\ persistence = [connected |-> FALSE, updatesSinceSnapshot |-> 0]
  /\ snapshot = NoSnapshot
  /\ pcall = IdlePcall

\* no schedule call made yet, no scheduleByLoad call made yet
NoFallback ==
  [picked |-> <<>>, byLoad |-> [called |-> FALSE, reason |-> "none", decision |-> NoDecision]]

(* ------------------------- CompletionSubscriber ----------------------- *)
\* no processCompletion call made yet
NoCompletion == [taskType |-> NoType, durationMs |-> 0, predictedDurationMs |-> 0]
\* number: the completionCount the call reached (0 when the subscriber was stopped)
IdlePending == [pc |-> "idle", completion |-> NoCompletion, number |-> 0]

FeedbackInit ==
  /\ completionSubscriber = [isRunning |-> FALSE, completionCount |-> 0, predictor |-> "null"]
  /\ samples = <<>>
  /\ pending = IdlePending
  /\ feedbackHist = [recorded |-> <<>>, events |-> <<>>, calls |-> 0]

(* ----------------------- detectDrift, MultiObjectiveScorer ------------- *)
NoDriftResult == [isDrift |-> FALSE, severity |-> "none"]
\* detectDrift not called
NoDrift == [predicted |-> 0, actual |-> 0, called |-> FALSE, result |-> NoDriftResult]

\* DEFAULT_SCORING_WEIGHTS
DEFAULT_SCORING_WEIGHTS == [wait |-> 4, load |-> 4, priority |-> 2]
\* score not called
NoScore == [called |-> FALSE, weights |-> DEFAULT_SCORING_WEIGHTS, priority |-> 0,
            estimatedDurationMs |-> 0, workerId |-> ""]

ScorerInit ==
  /\ weights = DEFAULT_SCORING_WEIGHTS
  /\ scoreCall = NoScore

\* the components as constructed
ComponentInit == PredInit /\ PersistInit /\ fallbackLog = NoFallback /\ FeedbackInit /\ ScorerInit

\* the consumeLoop invocations the model follows
LoopIds == {1, 2}

NoLoop == [pc |-> "none", batch |-> <<>>]

\* the response of a handler that has not responded
NoResponse == [status |-> 0, workerId |-> ""]

IdleRequest ==
  [handler |-> "none", pc |-> "idle", workerId |-> "", response |-> NoResponse,
   before |-> [fallbackThreshold |-> FallbackThreshold, heartbeatTimeoutMs |-> HeartbeatTimeoutMs]]

HandlersInit ==
  /\ apiConfig = [fallbackThreshold |-> FallbackThreshold, heartbeatTimeoutMs |-> HeartbeatTimeoutMs]
  /\ request = IdleRequest

WriterInit ==
  /\ clickHouseWriter = [client |-> "null", buffer |-> <<>>]
  /\ inserts = {}
  /\ writerHist = [written |-> 0, inserted |-> {}]

\* the dispatcher's loops, the API handlers and the decision writer
ServiceInit == loops = [l \in LoopIds |-> NoLoop] /\ HandlersInit /\ WriterInit

ExtInit == ComponentInit /\ driftCall = NoDrift /\ ServiceInit

(* ------------------------- registry operations ------------------------ *)
\* the capabilities each worker registers with
WorkerCapabilities(id) == IF id = "w1" THEN {"gpu"} ELSE {}

register(id, capabilities) ==
  /\ workers' = MapSet(workers,
       [id |-> id, status |-> "idle", capabilities |-> capabilities,
        currentLoad |-> 0, lastHeartbeat |-> now, activeTasks |-> 0,
        maxConcurrency |-> MaxActive])
  /\ workers' # workers
  /\ eventLog' = [eventLog EXCEPT ![id] = NoEvents]
  /\ UNCHANGED <<now, lastIndex, circuitBreaker, redis, stream, call, predictorHealthy, hist,
                 loopVars, extVars, hbVars>>

unregister(id) ==
  /\ Has(workers, id)
  /\ workers' = MapDelete(workers, id)
  /\ UNCHANGED <<now, lastIndex, circuitBreaker, redis, stream, call, predictorHealthy, hist, auxVars>>

heartbeat(id) ==
  /\ Has(workers, id)
  /\ workers' = [workers EXCEPT ![IndexOf(workers, id)].lastHeartbeat = now]
  /\ workers' # workers
  /\ eventLog' = [eventLog EXCEPT ![id].unhealthy = 0]
  /\ UNCHANGED <<now, lastIndex, circuitBreaker, redis, stream, call, predictorHealthy, hist,
                 loopVars, extVars, hbVars>>

updateStatus(id, status) ==
  /\ Has(workers, id)
  /\ workers' = [workers EXCEPT ![IndexOf(workers, id)].status = status]
  /\ workers' # workers
  /\ UNCHANGED <<now, lastIndex, circuitBreaker, redis, stream, call, predictorHealthy, hist, auxVars>>

updateLoad(id, load, activeTasks) ==
  /\ Has(workers, id)
  /\ workers' = [workers EXCEPT ![IndexOf(workers, id)].currentLoad = Clamp01(load),
                                ![IndexOf(workers, id)].activeTasks = activeTasks]
  /\ workers' # workers
  /\ UNCHANGED <<now, lastIndex, circuitBreaker, redis, stream, call, predictorHealthy, hist, auxVars>>

pruneStale ==
  /\ workers' = [i \in 1..Len(workers) |->
                   IF now - workers[i].lastHeartbeat > HeartbeatTimeoutMs
                   THEN [workers[i] EXCEPT !.status = "offline"]
                   ELSE workers[i]]
  /\ workers' # workers
  /\ UNCHANGED <<now, lastIndex, circuitBreaker, redis, stream, call, predictorHealthy, hist, auxVars>>

Tick ==
  /\ now < MaxTicks * TickMs
  /\ now' = now + TickMs
  /\ UNCHANGED <<workers, lastIndex, circuitBreaker, redis, stream, call, predictorHealthy, hist, auxVars>>

(* ---------------------------- specification --------------------------- *)
Init ==
  /\ now = 0
  /\ workers = <<>>
  /\ lastIndex = -1
  /\ circuitBreaker = ClosedBreaker
  /\ redis = "null"
  /\ stream = [m \in MsgIds |-> "new"]
  /\ call = IdleCall
  /\ predictorHealthy = FALSE
  /\ hist = [published |-> {}, streak |-> 0, lastThrowAt |-> Null]
  /\ running = FALSE
  /\ malformed = {}
  /\ HbInit
  /\ ExtInit
  /\ config = DEFAULT_CONFIG

Next ==
  \/ \E m \in MsgIds \cup {NoMsg}, caps \in SUBSET Capabilities : DispatchStart(m, caps)
  \/ \E o \in Outcomes : PredictDone(o)
  \/ \E ok \in BOOLEAN : PublishDone(ok)
  \/ \E ok \in BOOLEAN : XackDone(ok)
  \/ connect
  \/ \E id \in WorkerIds : register(id, WorkerCapabilities(id))
  \/ \E id \in WorkerIds, s \in StatusInputs : updateStatus(id, s)
  \/ \E id \in WorkerIds, a \in 0..MaxActive : updateLoad(id, 0, a)

Spec == Init /\ [][Next]_vars

TypeOK ==
  /\ now \in 0..(MaxTicks * TickMs)
  /\ lastIndex \in -1..Cardinality(WorkerIds)
  /\ circuitBreaker.failures \in 0..FallbackThreshold
  /\ redis \in {"null", "connected"}
  /\ call.pc \in {"idle", "predict", "publish", "xack", "done"}

(* ------------- recovery of the predictor (fair scheduling) ------------ *)
\* from now on predict resolves to a prediction naming a usable worker
PredictorRecovers ==
  /\ ~predictorHealthy
  /\ Len(workers) > 0
  /\ predictorHealthy' = TRUE
  /\ UNCHANGED <<now, workers, lastIndex, circuitBreaker, redis, stream, call, hist, auxVars>>

NextRecovery ==
  \/ \E m \in MsgIds \cup {NoMsg}, caps \in SUBSET Capabilities : DispatchStart(m, caps)
  \/ \E o \in Outcomes : PredictDone(o)
  \/ \E ok \in BOOLEAN : PublishDone(ok)
  \/ \E ok \in BOOLEAN : XackDone(ok)
  \/ connect
  \/ \E id \in WorkerIds : register(id, WorkerCapabilities(id))
  \/ PredictorRecovers

\* the loop keeps dispatching and every awaited promise settles
SpecRecovery ==
  /\ Init
  /\ [][NextRecovery]_vars
  /\ WF_vars(\E m \in MsgIds \cup {NoMsg}, caps \in SUBSET Capabilities : DispatchStart(m, caps))
  /\ WF_vars(\E o \in Outcomes : PredictDone(o))
  /\ WF_vars(\E ok \in BOOLEAN : PublishDone(ok))
  /\ WF_vars(\E ok \in BOOLEAN : XackDone(ok))

(* ------------------------- the registry on its own -------------------- *)
\* loads (percent) passed to register and to updateLoad
RegisterLoads == {50, 150}
UpdateLoads == {0 - 50, 50}
\* the clock moves by the heartbeat timeout or by one millisecond more
ClockSteps == {HeartbeatTimeoutMs, TickMs}

\* register(worker) with any WorkerState: stored as given, lastHeartbeat = now
registerWorker(worker) ==
  /\ workers' = MapSet(workers, [worker EXCEPT !.lastHeartbeat = now])
  /\ workers' # workers
  /\ eventLog' = [eventLog EXCEPT ![worker.id] = NoEvents]
  /\ UNCHANGED <<now, lastIndex, circuitBreaker, redis, stream, call, predictorHealthy, hist,
                 loopVars, extVars, hbVars>>

WorkerStates ==
  {[id |-> id, status |-> s, capabilities |-> WorkerCapabilities(id), currentLoad |-> l,
    lastHeartbeat |-> 0, activeTasks |-> a, maxConcurrency |-> MaxActive] :
     id \in WorkerIds, s \in {"idle", "busy"}, l \in RegisterLoads, a \in 0..MaxActive}

AdvanceClock(d) ==
  /\ now + d <= MaxTicks * TickMs
  /\ now' = now + d
  /\ UNCHANGED <<workers, lastIndex, circuitBreaker, redis, stream, call, predictorHealthy, hist, auxVars>>

NextRegistry ==
  \/ \E w \in WorkerStates : registerWorker(w)
  \/ \E id \in WorkerIds : unregister(id)
  \/ \E id \in WorkerIds : heartbeat(id)
  \/ \E id \in WorkerIds, s \in Statuses : updateStatus(id, s)
  \/ \E id \in WorkerIds, l \in UpdateLoads, a \in 0..MaxActive : updateLoad(id, l, a)
  \/ pruneStale
  \/ \E d \in ClockSteps : AdvanceClock(d)

SpecRegistry == Init /\ [][NextRegistry]_vars

(* --------------------------- HeartbeatSubscriber ---------------------- *)
\* configurations the subscriber is built with: the defaults, and short ones
Configs == {DEFAULT_CONFIG, [unhealthyTimeoutMs |-> 50, removedTimeoutMs |-> 500]}

\* cpuUsage = memoryUsage of a heartbeat (percent)
HeartbeatUsages == {0, 100}

\* how far behind the clock heartbeat.timestampMs is
TimestampAges == {0, UNHEALTHY_TIMEOUT_MS, REMOVED_TIMEOUT_MS}

\* the workers whose heartbeats arrive on the stream
HeartbeatSenders == {"w1"}

Heartbeats ==
  {[workerId |-> id, cpuUsage |-> u, memoryUsage |-> u, timestampMs |-> now - a] :
     id \in HeartbeatSenders, u \in HeartbeatUsages, a \in TimestampAges}

\* heartbeats stamped with the current time
FreshHeartbeats == {hb \in Heartbeats : hb.timestampMs = now}

calculateCurrentLoad(cpuUsage, memoryUsage) ==
  (60 * Clamp01(cpuUsage) + 40 * Clamp01(memoryUsage)) \div 100

determineHealthStatus(lastHeartbeatMs, currentLoad, t) ==
  IF t - lastHeartbeatMs >= REMOVED_TIMEOUT_MS THEN "removed"
  ELSE IF t - lastHeartbeatMs >= UNHEALTHY_TIMEOUT_MS THEN "unhealthy"
  ELSE IF currentLoad >= DEGRADED_LOAD THEN "degraded"
  ELSE "healthy"

shouldMarkUnhealthy(lastHeartbeatMs, t) == t - lastHeartbeatMs >= UNHEALTHY_TIMEOUT_MS

shouldRemoveWorker(lastHeartbeatMs, t) == t - lastHeartbeatMs >= REMOVED_TIMEOUT_MS

\* previousState?.capacity.healthStatus ?? 'healthy'
previousHealth(id) ==
  IF workerCapacity[id] = NoCapacity THEN "healthy" ELSE workerCapacity[id].healthStatus

CountUp(n) == IF n >= 2 THEN 2 ELSE n + 1

\* mutant: a heartbeat puts the worker back to idle
handleHeartbeat_Revives(hb) ==
  IF ~Has(workers, hb.workerId)
  THEN UNCHANGED <<workers, workerCapacity, eventLog>>
  ELSE LET id == hb.workerId
           i == IndexOf(workers, id)
           currentLoad == calculateCurrentLoad(hb.cpuUsage, hb.memoryUsage)
           health == determineHealthStatus(hb.timestampMs, currentLoad, now)
           changed == previousHealth(id) # health
       IN /\ workers' = [workers EXCEPT ![i].lastHeartbeat = now,
                                        ![i].currentLoad = Clamp01(currentLoad),
                                        ![i].status = "idle"]
          /\ workerCapacity' = [workerCapacity EXCEPT
                                 ![id] = [healthStatus |-> health, previousLoad |-> currentLoad]]
          /\ eventLog' = [eventLog EXCEPT
                ![id] = [unhealthy |-> IF changed /\ health = "unhealthy" THEN 1 ELSE 0,
                         removed |-> IF changed /\ health = "removed"
                                     THEN CountUp(@.removed) ELSE @.removed]]

handleHeartbeat(hb) ==
  IF ~Has(workers, hb.workerId)
  THEN UNCHANGED <<workers, workerCapacity, eventLog>>
  ELSE LET id == hb.workerId
           i == IndexOf(workers, id)
           currentLoad == calculateCurrentLoad(hb.cpuUsage, hb.memoryUsage)
           health == determineHealthStatus(hb.timestampMs, currentLoad, now)
           changed == previousHealth(id) # health
       IN /\ workers' = [workers EXCEPT ![i].lastHeartbeat = now,
                                        ![i].currentLoad = Clamp01(currentLoad)]
          /\ workerCapacity' = [workerCapacity EXCEPT
                                 ![id] = [healthStatus |-> health, previousLoad |-> currentLoad]]
          /\ eventLog' = [eventLog EXCEPT
                ![id] = [unhealthy |-> IF changed /\ health = "unhealthy" THEN 1 ELSE 0,
                         removed |-> IF changed /\ health = "removed"
                                     THEN CountUp(@.removed) ELSE @.removed]]

\* the 'data' handler registered on stream s
StreamData(s, hb) ==
  /\ streams[s] = "open"
  /\ handleHeartbeat(hb)
  /\ UNCHANGED <<now, lastIndex, circuitBreaker, redis, stream, call, predictorHealthy, hist,
                 loopVars, extVars, grpcStream, streams, healthCheckInterval, isRunning, config>>

\* the 'end' handler registered on stream s
StreamEnd(s) ==
  /\ streams[s] = "open"
  /\ streams' = [streams EXCEPT ![s] = "ended"]
  /\ isRunning' = FALSE
  /\ UNCHANGED <<now, workers, lastIndex, circuitBreaker, redis, stream, call, predictorHealthy,
                 hist, loopVars, extVars, workerCapacity, grpcStream, healthCheckInterval, config,
                 eventLog>>

\* stream.cancel(), counted
Cancel(st) == IF st \in {"cancelled", "cancelledTwice"} THEN "cancelledTwice" ELSE "cancelled"

subscribe(s) ==
  /\ streams[s] = "unused"
  /\ \A r \in StreamIds : r < s => streams[r] # "unused"
  /\ streams' = [r \in StreamIds |->
                   IF r = s THEN "open"
                   ELSE IF r = grpcStream THEN Cancel(streams[r]) ELSE streams[r]]
  /\ grpcStream' = s
  /\ isRunning' = TRUE
  /\ healthCheckInterval' = TRUE
  /\ UNCHANGED <<now, workers, lastIndex, circuitBreaker, redis, stream, call, predictorHealthy,
                 hist, loopVars, extVars, workerCapacity, config, eventLog>>

\* mutant: the health check timer is left running
unsubscribe_KeepsTimer ==
  /\ streams' = [r \in StreamIds |-> IF r = grpcStream THEN Cancel(streams[r]) ELSE streams[r]]
  /\ grpcStream' = NoStream
  /\ isRunning' = FALSE
  /\ UNCHANGED <<now, workers, lastIndex, circuitBreaker, redis, stream, call, predictorHealthy,
                 hist, loopVars, extVars, workerCapacity, healthCheckInterval, config, eventLog>>

unsubscribe ==
  /\ streams' = [r \in StreamIds |-> IF r = grpcStream THEN Cancel(streams[r]) ELSE streams[r]]
  /\ grpcStream' = NoStream
  /\ healthCheckInterval' = FALSE
  /\ isRunning' = FALSE
  /\ UNCHANGED <<now, workers, lastIndex, circuitBreaker, redis, stream, call, predictorHealthy,
                 hist, loopVars, extVars, workerCapacity, config, eventLog>>

\* handleWorkerUnhealthy acts on this worker
MarksUnhealthy(w) ==
  /\ ~shouldRemoveWorker(w.lastHeartbeat, now)
  /\ shouldMarkUnhealthy(w.lastHeartbeat, now)
  /\ previousHealth(w.id) \notin {"unhealthy", "removed"}

\* the registry, the capacity map and the events after checkWorkerHealth ran
\* over registry.getAll() in the current state
Checked ==
  [workers |->
     LET kept == SelectSeq(workers, LAMBDA w : ~shouldRemoveWorker(w.lastHeartbeat, now))
     IN [i \in 1..Len(kept) |->
           IF MarksUnhealthy(kept[i]) THEN [kept[i] EXCEPT !.status = "offline"] ELSE kept[i]],
   workerCapacity |-> [id \in WorkerIds |->
     IF ~Has(workers, id) THEN workerCapacity[id]
     ELSE IF shouldRemoveWorker(get(workers, id).lastHeartbeat, now) THEN NoCapacity
     ELSE IF MarksUnhealthy(get(workers, id))
     THEN [healthStatus |-> "unhealthy",
           previousLoad |-> IF workerCapacity[id] = NoCapacity
                            THEN get(workers, id).currentLoad
                            ELSE workerCapacity[id].previousLoad]
     ELSE workerCapacity[id]],
   eventLog |-> [id \in WorkerIds |->
     IF ~Has(workers, id) THEN eventLog[id]
     ELSE IF shouldRemoveWorker(get(workers, id).lastHeartbeat, now)
     THEN (IF previousHealth(id) # "removed"
           THEN [eventLog[id] EXCEPT !.removed = CountUp(@)] ELSE eventLog[id])
     ELSE IF MarksUnhealthy(get(workers, id))
     THEN [eventLog[id] EXCEPT !.unhealthy = CountUp(@)]
     ELSE eventLog[id]]]

\* one run of the health check timer
checkWorkerHealth ==
  /\ healthCheckInterval
  /\ workers' = Checked.workers
  /\ workerCapacity' = Checked.workerCapacity
  /\ eventLog' = Checked.eventLog
  /\ UNCHANGED <<now, lastIndex, circuitBreaker, redis, stream, call, predictorHealthy, hist,
                 loopVars, extVars, grpcStream, streams, healthCheckInterval, isRunning, config>>

\* the clock moves from one configured timeout to the next
ConfigSteps(c) == {c.unhealthyTimeoutMs, c.removedTimeoutMs - c.unhealthyTimeoutMs}

HbClockSteps == UNION {ConfigSteps(c) : c \in Configs}

HbAdvance(d) ==
  /\ d \in ConfigSteps(config)
  /\ now + d <= MaxTicks * config.removedTimeoutMs
  /\ now' = now + d
  /\ UNCHANGED <<workers, lastIndex, circuitBreaker, redis, stream, call, predictorHealthy, hist,
                 auxVars>>

InitSubscriber ==
  /\ now = 0
  /\ workers = <<>>
  /\ lastIndex = -1
  /\ circuitBreaker = ClosedBreaker
  /\ redis = "null"
  /\ stream = [m \in MsgIds |-> "new"]
  /\ call = IdleCall
  /\ predictorHealthy = FALSE
  /\ hist = [published |-> {}, streak |-> 0, lastThrowAt |-> Null]
  /\ running = FALSE
  /\ malformed = {}
  /\ HbInit
  /\ ExtInit
  /\ config \in Configs

\* the reaper and the heartbeats of one subscription
NextReaper ==
  \/ \E s \in StreamIds : subscribe(s) /\ grpcStream = NoStream
  \/ \E s \in StreamIds, hb \in Heartbeats : StreamData(s, hb)
  \/ checkWorkerHealth
  \/ \E id \in WorkerIds : register(id, WorkerCapabilities(id))
  \/ \E d \in HbClockSteps : HbAdvance(d)

SpecReaper == InitSubscriber /\ [][NextReaper]_vars

\* subscriptions coming and going
NextSubscriber ==
  \/ \E s \in StreamIds : subscribe(s)
  \/ unsubscribe
  \/ \E s \in StreamIds, hb \in FreshHeartbeats : StreamData(s, hb)
  \/ \E s \in StreamIds : StreamEnd(s)
  \/ checkWorkerHealth
  \/ \E id \in WorkerIds : register(id, WorkerCapabilities(id))
  \/ \E d \in HbClockSteps : HbAdvance(d)

SpecSubscriber == Init /\ [][NextSubscriber]_vars

\* a stream the subscriber has cancelled: its listeners are still attached
Cancelled(s) == streams[s] \in {"cancelled", "cancelledTwice"}

\* the 'data' handler registered on stream s, called after s was cancelled
LateStreamData(s, hb) ==
  /\ Cancelled(s)
  /\ handleHeartbeat(hb)
  /\ UNCHANGED <<now, lastIndex, circuitBreaker, redis, stream, call, predictorHealthy, hist,
                 loopVars, extVars, grpcStream, streams, healthCheckInterval, isRunning, config>>

\* the 'end' handler registered on stream s, called after s was cancelled
LateStreamEnd(s) ==
  /\ Cancelled(s)
  /\ streams' = [streams EXCEPT ![s] = "ended"]
  /\ isRunning' = FALSE
  /\ UNCHANGED <<now, workers, lastIndex, circuitBreaker, redis, stream, call, predictorHealthy,
                 hist, loopVars, extVars, workerCapacity, grpcStream, healthCheckInterval, config,
                 eventLog>>

\* subscriptions replaced while the replaced stream still delivers events
NextResubscribe ==
  \/ NextSubscriber
  \/ \E s \in StreamIds, hb \in FreshHeartbeats : LateStreamData(s, hb)
  \/ \E s \in StreamIds : LateStreamEnd(s)

SpecResubscribe == Init /\ [][NextResubscribe]_vars

(* ---------------------- HeuristicPredictor feedback ------------------- *)
\* newEMA = alpha * actual + (1 - alpha) * previousEMA
updateEMA(current, actual, alpha) == (alpha * actual + (10 - alpha) * current) \div 10

initializeEMA(taskType, initialValue) ==
  [ema |-> initialValue, sampleCount |-> 0, lastUpdated |-> now]

\* mutant: the first sample is blended with the default duration
updateEMAState_BlendsFirst(state, actual, alpha) ==
  [ema |-> updateEMA(state.ema, actual, alpha),
   sampleCount |-> state.sampleCount + 1,
   lastUpdated |-> now]

updateEMAState(state, actual, alpha) ==
  [ema |-> IF state.sampleCount = 0 THEN actual ELSE updateEMA(state.ema, actual, alpha),
   sampleCount |-> state.sampleCount + 1,
   lastUpdated |-> now]

\* PredictionPersistence.save up to its await of client.set: the map is
\* serialized before the write is issued
save(op, preds, log) ==
  IF persistence.connected
  THEN [op |-> op, pc |-> "saving", data |-> preds, log |-> log]
  ELSE Settled(op, "resolved")

\* mutant: a snapshot is taken only after the interval has been exceeded
trackUpdate_Late(op, preds, log) ==
  /\ persistence' = [persistence EXCEPT !.updatesSinceSnapshot = @ + 1]
  /\ pcall' = IF persistence.updatesSinceSnapshot + 1 > snapshotInterval
              THEN save(op, preds, log)
              ELSE Settled(op, "resolved")

\* PredictionPersistence.trackUpdate up to the await inside save
trackUpdate(op, preds, log) ==
  /\ persistence' = [persistence EXCEPT !.updatesSinceSnapshot = @ + 1]
  /\ pcall' = IF persistence.updatesSinceSnapshot + 1 >= snapshotInterval
              THEN save(op, preds, log)
              ELSE Settled(op, "resolved")

\* feedback(_, _, _, actualDurationMs, taskType), up to the await of the
\* snapshot write when one is due; calls are made one after the other
feedbackEffect(actualDurationMs, taskType) ==
  /\ pcall.pc # "saving"
  /\ IF taskType = NoType
     THEN /\ UNCHANGED <<predictions, feedbackLog, persistence>>
          /\ pcall' = Settled("feedback", "resolved")
     ELSE /\ Len(feedbackLog[taskType]) < MaxSamples
          /\ persistence.updatesSinceSnapshot < snapshotInterval + MaxSamples
          /\ LET state == IF predictions[taskType] = NoState
                          THEN initializeEMA(taskType, defaultDurationMs * EmaScale)
                          ELSE predictions[taskType]
             IN predictions' = [predictions EXCEPT ![taskType] =
                                  updateEMAState(state, actualDurationMs * EmaScale, Alpha)]
          /\ feedbackLog' = [feedbackLog EXCEPT ![taskType] = Append(@, actualDurationMs)]
          /\ IF persistence.connected
             THEN trackUpdate("feedback", predictions', feedbackLog')
             ELSE /\ pcall' = Settled("feedback", "resolved")
                  /\ UNCHANGED persistence
  /\ UNCHANGED snapshot

\* a feedback call made on the predictor directly
feedback(actualDurationMs, taskType) ==
  /\ feedbackEffect(actualDurationMs, taskType)
  /\ UNCHANGED <<now, workers, lastIndex, circuitBreaker, redis, stream, call, predictorHealthy,
                 hist, loopVars, hbVars, eventLog, exceptPredictor>>

resetPrediction(taskType) ==
  /\ predictions[taskType] # NoState
  /\ predictions' = [predictions EXCEPT ![taskType] = NoState]
  /\ feedbackLog' = [feedbackLog EXCEPT ![taskType] = <<>>]
  /\ UNCHANGED <<now, workers, lastIndex, circuitBreaker, redis, stream, call, predictorHealthy,
                 hist, loopVars, hbVars, eventLog, exceptPredictor,
                 persistVars>>

NextPredictor ==
  \/ \E d \in Durations, t \in TaskTypes \cup {NoType} : feedback(d, t)
  \/ \E t \in TaskTypes : resetPrediction(t)

SpecPredictor == Init /\ [][NextPredictor]_vars

(* ---------------------- RoundRobinScheduler on its own ---------------- *)
\* consecutive calls followed
MaxCalls == 5
PoolIds == WorkerIds \cup {"w3"}
PoolLoads == {1, 2, 3}
PoolConcurrency == 2

\* the registries the scheduler reads: one to three workers in insertion
\* order, each idle or offline, with a load and zero or one active task
PoolStates(id) ==
  {[id |-> id, status |-> s, capabilities |-> {}, currentLoad |-> l,
    lastHeartbeat |-> 0, activeTasks |-> a, maxConcurrency |-> PoolConcurrency] :
     s \in {"idle", "offline"}, l \in PoolLoads, a \in 0..1}

Pools ==
  {<<a>> : a \in PoolStates("w1")}
    \cup {<<a, b>> : a \in PoolStates("w1"), b \in PoolStates("w2")}
    \cup {<<a, b, c>> : a \in PoolStates("w1"), b \in PoolStates("w2"), c \in PoolStates("w3")}

\* schedule(task) for a task without required capabilities
fallbackSchedule ==
  /\ Len(fallbackLog.picked) < MaxCalls
  /\ LET r == schedule(workers, lastIndex, NoMsg, {}, now, "fallback_round_robin")
     IN /\ lastIndex' = r.lastIndex
        /\ fallbackLog' = [fallbackLog EXCEPT !.picked = Append(@, r.decision.workerId)]
  /\ UNCHANGED <<now, workers, circuitBreaker, redis, stream, call, predictorHealthy, hist,
                 loopVars, hbVars, eventLog, exceptFallback>>

\* loads (percent) closer than this are compared by their active-task ratio
LOAD_TIE == 1

\* the comparator of scheduleByLoad: negative, zero or positive
compareLoad(a, b) ==
  LET loadDiff == a.currentLoad - b.currentLoad
      absDiff == IF loadDiff < 0 THEN 0 - loadDiff ELSE loadDiff
  IN IF absDiff > LOAD_TIE
     THEN loadDiff
     ELSE a.activeTasks * b.maxConcurrency - b.activeTasks * a.maxConcurrency

\* the comparator orders the list consistently (a strict weak order)
ConsistentOn(av) ==
  \A i, j, k \in 1..Len(av) :
    /\ (compareLoad(av[i], av[j]) < 0 /\ compareLoad(av[j], av[k]) < 0)
         => compareLoad(av[i], av[k]) < 0
    /\ (compareLoad(av[i], av[j]) = 0 /\ compareLoad(av[j], av[k]) = 0)
         => compareLoad(av[i], av[k]) = 0

\* the positions that [...available].sort(compare)[0] can come from: the sort
\* is stable, so with a consistent comparator it is the first position that
\* no other one precedes; with an inconsistent one the order is left to the
\* implementation
SortedFirst(av) ==
  IF ConsistentOn(av)
  THEN {i \in 1..Len(av) :
          /\ \A j \in 1..Len(av) : ~(compareLoad(av[j], av[i]) < 0)
          /\ \A j \in 1..(i - 1) : compareLoad(av[j], av[i]) > 0}
  ELSE 1..Len(av)

FallbackReasons == {"load_balance", "fallback_circuit_breaker"}

\* scheduleByLoad(task, reason) for a task without required capabilities
scheduleByLoad(reason) ==
  /\ LET available == getAvailable(workers, {}, now)
     IN IF Len(available) = 0
        THEN fallbackLog' = [fallbackLog EXCEPT
               !.byLoad = [called |-> TRUE, reason |-> reason, decision |-> NoDecision]]
        ELSE \E i \in SortedFirst(available) :
               fallbackLog' = [fallbackLog EXCEPT
                 !.byLoad = [called |-> TRUE, reason |-> reason,
                             decision |-> Decision(NoMsg, available[i].id, TRUE, reason)]]
  /\ UNCHANGED <<now, workers, lastIndex, circuitBreaker, redis, stream, call, predictorHealthy,
                 hist, loopVars, hbVars, eventLog, exceptFallback>>

\* the dispatcher and the heartbeat subscriber as constructed
DispatcherInit ==
  /\ now = 0
  /\ circuitBreaker = ClosedBreaker
  /\ redis = "null"
  /\ stream = [m \in MsgIds |-> "new"]
  /\ call = IdleCall
  /\ predictorHealthy = FALSE
  /\ hist = [published |-> {}, streak |-> 0, lastThrowAt |-> Null]
  /\ running = FALSE
  /\ malformed = {}
  /\ HbInit
  /\ config = DEFAULT_CONFIG

InitFallback ==
  /\ workers \in Pools
  /\ lastIndex \in (0 - 1)..Cardinality(PoolIds)
  /\ DispatcherInit
  /\ ExtInit

NextFallback ==
  \/ fallbackSchedule
  \/ \E reason \in FallbackReasons : scheduleByLoad(reason)

SpecFallback == InitFallback /\ [][NextFallback]_vars

(* ------------------- drift detector, AccuracyTracker ------------------ *)
\* DEFAULT_DRIFT_CONFIG and the severity limits, in hundredths of the ratio
DRIFT_LOWER == 50
DRIFT_UPPER == 200
MAJOR_LOWER == 33
MAJOR_UPPER == 300

\* detectDrift(predicted, actual): ratio = actual / predicted is compared
\* with a limit t / 100 as 100 * actual against t * predicted
detectDrift(predicted, actual) ==
  IF predicted <= 0
  THEN [isDrift |-> TRUE, severity |-> "major"]
  ELSE LET isDrift == \/ 100 * actual < DRIFT_LOWER * predicted
                      \/ 100 * actual > DRIFT_UPPER * predicted
       IN [isDrift |-> isDrift,
           severity |-> IF ~isDrift THEN "none"
                        ELSE IF \/ 100 * actual < MAJOR_LOWER * predicted
                                \/ 100 * actual > MAJOR_UPPER * predicted
                             THEN "major"
                             ELSE "minor"]

\* accuracyThreshold, in hundredths
ACCURACY_THRESHOLD == 25

\* isWithinThreshold(predicted, actual, threshold) with calculateDeviation
isWithinThreshold(predicted, actual) ==
  IF predicted = 0
  THEN actual = 0
  ELSE LET diff == IF actual < predicted THEN predicted - actual ELSE actual - predicted
       IN 100 * diff <= ACCURACY_THRESHOLD * predicted

\* AccuracyTrackerConfig.windowSize as configured here (1000 by default)
windowSize == 2

PredictionSample(taskType, predicted, actual) ==
  [taskType |-> taskType, predicted |-> predicted, actual |-> actual, timestamp |-> now,
   withinThreshold |-> isWithinThreshold(predicted, actual)]

\* mutant: the newest sample is dropped on overflow
record_DropsNewest(ss, taskType, predicted, actual) ==
  IF Len(ss) + 1 > windowSize THEN ss
  ELSE Append(ss, PredictionSample(taskType, predicted, actual))

\* AccuracyTracker.record: the samples after push and, on overflow, shift
record(ss, taskType, predicted, actual) ==
  LET pushed == Append(ss, PredictionSample(taskType, predicted, actual))
  IN IF Len(pushed) > windowSize THEN Tail(pushed) ELSE pushed

\* isAccuracyBelowTarget(0.8) over getStats()
TARGET_ACCURACY == 80
isAccuracyBelowTarget(ss) ==
  LET within == Cardinality({i \in 1..Len(ss) : ss[i].withinThreshold})
  IN Len(ss) > 0 /\ 100 * within < TARGET_ACCURACY * Len(ss)

\* the arguments detectDrift is called with
DriftPredicted == {0, 100, 300}
DriftActuals ==
  (30..35) \cup (48..52) \cup (98..102) \cup (198..202) \cup (298..302) \cup (598..602)
    \cup (898..902)

\* a detectDrift(predicted, actual) call with the default configuration
detect ==
  /\ ~driftCall.called
  /\ driftCall' = [driftCall EXCEPT !.called = TRUE,
                                    !.result = detectDrift(driftCall.predicted, driftCall.actual)]
  /\ UNCHANGED <<now, workers, lastIndex, circuitBreaker, redis, stream, call, predictorHealthy,
                 hist, loopVars, hbVars, eventLog, exceptDrift>>

InitDrift ==
  /\ workers = <<>>
  /\ lastIndex = 0 - 1
  /\ DispatcherInit
  /\ ComponentInit
  /\ ServiceInit
  /\ driftCall \in {[predicted |-> p, actual |-> a, called |-> FALSE, result |-> NoDriftResult] :
                       p \in DriftPredicted, a \in DriftActuals}

NextDrift ==
  \/ detect

SpecDrift == InitDrift /\ [][NextDrift]_vars

(* --------------------------- CompletionSubscriber --------------------- *)
\* processCompletion calls followed
MaxCompletions == 4
\* completionCount at which the rolling accuracy is checked
ACCURACY_CHECK_EVERY == 100

\* predictedDurationMs is 0 when the completion carries no prediction
Completions ==
  {[taskType |-> t, durationMs |-> d, predictedDurationMs |-> p] :
     t \in TaskTypes, d \in TrackedDurations, p \in {0, 1000, 3000}}

Emit(hist0, event) == [hist0 EXCEPT !.events = Append(@, event)]

setPredictor ==
  /\ completionSubscriber.predictor = "null"
  /\ completionSubscriber' = [completionSubscriber EXCEPT !.predictor = "set"]
  /\ UNCHANGED <<now, workers, lastIndex, circuitBreaker, redis, stream, call, predictorHealthy,
                 hist, loopVars, hbVars, eventLog, predictorVars, exceptFeedback,
                 samples, pending, feedbackHist>>

\* CompletionSubscriber.start
subscriberStart ==
  /\ ~completionSubscriber.isRunning
  /\ completionSubscriber' = [completionSubscriber EXCEPT !.isRunning = TRUE]
  /\ UNCHANGED <<now, workers, lastIndex, circuitBreaker, redis, stream, call, predictorHealthy,
                 hist, loopVars, hbVars, eventLog, predictorVars, exceptFeedback,
                 samples, pending, feedbackHist>>

\* CompletionSubscriber.stop
subscriberStop ==
  /\ completionSubscriber.isRunning
  /\ completionSubscriber' = [completionSubscriber EXCEPT !.isRunning = FALSE]
  /\ UNCHANGED <<now, workers, lastIndex, circuitBreaker, redis, stream, call, predictorHealthy,
                 hist, loopVars, hbVars, eventLog, predictorVars, exceptFeedback,
                 samples, pending, feedbackHist>>

\* CompletionSubscriber.reset: completionCount = 0, accuracyTracker.clear()
resetStatistics ==
  /\ completionSubscriber.completionCount > 0
  /\ completionSubscriber' = [completionSubscriber EXCEPT !.completionCount = 0]
  /\ samples' = <<>>
  /\ feedbackHist' = [feedbackHist EXCEPT !.recorded = <<>>]
  /\ UNCHANGED <<now, workers, lastIndex, circuitBreaker, redis, stream, call, predictorHealthy,
                 hist, loopVars, hbVars, eventLog, predictorVars, exceptFeedback, pending>>

\* checkAccuracy when completionCount is a multiple of 100
CheckAccuracy(count, ss, hist0) ==
  IF count % ACCURACY_CHECK_EVERY = 0 /\ isAccuracyBelowTarget(ss)
  THEN Emit(hist0, [type |-> "accuracy_warning", taskType |-> NoType])
  ELSE hist0

\* the part of processCompletion before predictor.feedback: drift, accuracy
Tracked(c, hist0) ==
  LET predicted == c.predictedDurationMs
      drift == detectDrift(predicted, c.durationMs)
      sample == PredictionSample(c.taskType, predicted, c.durationMs)
  IN IF predicted > 0
     THEN [samples |-> record(samples, c.taskType, predicted, c.durationMs),
           hist |-> [(IF drift.isDrift
                      THEN Emit(hist0, [type |-> "drift_detected", taskType |-> c.taskType])
                      ELSE hist0)
                     EXCEPT !.recorded = Append(@, sample)]]
     ELSE [samples |-> samples, hist |-> hist0]

\* mutant: a stopped subscriber still processes the completion
processCompletion_IgnoresStop(c) ==
  /\ pending.pc # "feedback"
  /\ feedbackHist.calls < MaxCompletions
  /\ LET count == completionSubscriber.completionCount + 1
         tracked == Tracked(c, [feedbackHist EXCEPT !.calls = @ + 1])
     IN /\ completionSubscriber' = [completionSubscriber EXCEPT !.completionCount = count]
        /\ samples' = tracked.samples
        /\ feedbackHist' = CheckAccuracy(count, tracked.samples, tracked.hist)
        /\ pending' = [pc |-> "done", completion |-> c, number |-> count]
        /\ UNCHANGED predictorVars
  /\ UNCHANGED <<now, workers, lastIndex, circuitBreaker, redis, stream, call, predictorHealthy,
                 hist, loopVars, hbVars, eventLog, exceptFeedback>>

\* processCompletion(completion) up to its await of predictor.feedback, or
\* to its end when stopped or without a predictor
processCompletion(c) ==
  /\ pending.pc # "feedback"
  /\ feedbackHist.calls < MaxCompletions
  /\ IF ~completionSubscriber.isRunning
     THEN /\ pending' = [pc |-> "done", completion |-> c, number |-> 0]
          /\ feedbackHist' = [feedbackHist EXCEPT !.calls = @ + 1]
          /\ UNCHANGED <<completionSubscriber, samples, predictorVars>>
     ELSE LET count == completionSubscriber.completionCount + 1
              tracked == Tracked(c, [feedbackHist EXCEPT !.calls = @ + 1])
          IN /\ completionSubscriber' = [completionSubscriber EXCEPT !.completionCount = count]
             /\ samples' = tracked.samples
             /\ IF completionSubscriber.predictor = "set"
                THEN /\ feedbackEffect(c.durationMs, c.taskType)
                     /\ feedbackHist' = tracked.hist
                     /\ pending' = [pc |-> "feedback", completion |-> c, number |-> count]
                ELSE /\ feedbackHist' = CheckAccuracy(count, tracked.samples, tracked.hist)
                     /\ pending' = [pc |-> "done", completion |-> c, number |-> count]
                     /\ UNCHANGED predictorVars
  /\ UNCHANGED <<now, workers, lastIndex, circuitBreaker, redis, stream, call, predictorHealthy,
                 hist, loopVars, hbVars, eventLog, exceptFeedback>>

\* predictor.feedback has settled: prediction_updated is emitted and the
\* accuracy is checked, with the completionCount of that moment
FeedbackReturned ==
  /\ pending.pc = "feedback"
  /\ pcall.pc # "saving"
  /\ IF pcall.pc = "rejected"
     THEN /\ pending' = [pending EXCEPT !.pc = "rejected"]
          /\ UNCHANGED feedbackHist
     ELSE /\ pending' = [pending EXCEPT !.pc = "done"]
          /\ feedbackHist' =
               CheckAccuracy(completionSubscriber.completionCount, samples,
                 Emit(feedbackHist,
                      [type |-> "prediction_updated", taskType |-> pending.completion.taskType]))
  /\ UNCHANGED <<now, workers, lastIndex, circuitBreaker, redis, stream, call, predictorHealthy,
                 hist, loopVars, hbVars, eventLog, predictorVars, exceptFeedback,
                 completionSubscriber, samples>>

NextFeedback ==
  \/ setPredictor
  \/ subscriberStart
  \/ subscriberStop
  \/ resetStatistics
  \/ \E c \in Completions : processCompletion(c)
  \/ FeedbackReturned

SpecFeedback == Init /\ [][NextFeedback]_vars

(* -------------------------- MultiObjectiveScorer ---------------------- *)
DEFAULT_MAX_WAIT_MS == 60000
DEFAULT_MAX_PRIORITY == 10
\* estimatedDurationMs assumed without a prediction
DEFAULT_ESTIMATE_MS == 5000

isWorkerEligible(w, requiredCapabilities) ==
  /\ w.status # "offline" /\ w.status # "draining"
  /\ ~(w.activeTasks >= w.maxConcurrency)
  /\ requiredCapabilities \subseteq w.capabilities

estimateWaitTime(w, estimatedDurationMs) == w.activeTasks * estimatedDurationMs

\* calculateWaitScore, times maxWaitMs
calculateWaitScore(estimatedWaitMs) ==
  IF estimatedWaitMs <= 0 THEN DEFAULT_MAX_WAIT_MS
  ELSE IF estimatedWaitMs >= DEFAULT_MAX_WAIT_MS THEN 0
  ELSE DEFAULT_MAX_WAIT_MS - estimatedWaitMs

\* calculateLoadScore, in percent
calculateLoadScore(currentLoad) == 100 - Clamp01(currentLoad)

\* calculatePriorityScore, times maxPriority
calculatePriorityScore(priority) ==
  IF priority <= 0 THEN 0
  ELSE IF priority >= DEFAULT_MAX_PRIORITY THEN DEFAULT_MAX_PRIORITY
  ELSE priority

\* scoreWorker: the weighted sum, on the common denominator
\* 10 * maxWaitMs (the weights are in tenths)
scoreWorker(w, ws, priority, estimatedDurationMs) ==
  ws.wait * calculateWaitScore(estimateWaitTime(w, estimatedDurationMs))
    + ws.load * calculateLoadScore(w.currentLoad) * (DEFAULT_MAX_WAIT_MS \div 100)
    + ws.priority * calculatePriorityScore(priority) * (DEFAULT_MAX_WAIT_MS \div DEFAULT_MAX_PRIORITY)

\* score(task, workers, prediction) for a task without required
\* capabilities: the workerId of scores[0] after the stable sort by
\* descending score, "" for null
score(candidates, ws, priority, estimatedDurationMs) ==
  LET eligibleWorkers == SelectSeq(candidates, LAMBDA w : isWorkerEligible(w, {}))
      s(i) == scoreWorker(eligibleWorkers[i], ws, priority, estimatedDurationMs)
      n == Len(eligibleWorkers)
  IN IF n = 0 THEN ""
     ELSE eligibleWorkers[CHOOSE i \in 1..n :
                            /\ \A j \in 1..n : s(j) <= s(i)
                            /\ \A j \in 1..(i - 1) : s(j) < s(i)].id

\* validateWeights: |wait + load + priority - 1.0| < 0.001
validateWeights(ws) == ws.wait + ws.load + ws.priority = 10

\* the partial weights passed to updateWeights
WeightUpdates ==
  {[wait |-> 6], [wait |-> 2, load |-> 6], [wait |-> 5, load |-> 5, priority |-> 5]}

updateWeights(partial) ==
  /\ weights' = [k \in DOMAIN weights |-> IF k \in DOMAIN partial THEN partial[k] ELSE weights[k]]
  /\ weights' # weights
  /\ UNCHANGED <<now, workers, lastIndex, circuitBreaker, redis, stream, call, predictorHealthy,
                 hist, loopVars, hbVars, eventLog, exceptScorer, scoreCall>>

TaskPriorities == {5}
\* estimatedDurationMs of the prediction (the default without one)
Estimates == {DEFAULT_ESTIMATE_MS, 30000}

\* score(task, registry workers, prediction)
scoreTask(priority, estimatedDurationMs) ==
  /\ scoreCall' = [called |-> TRUE, weights |-> weights, priority |-> priority,
                   estimatedDurationMs |-> estimatedDurationMs,
                   workerId |-> score(workers, weights, priority, estimatedDurationMs)]
  /\ UNCHANGED <<now, workers, lastIndex, circuitBreaker, redis, stream, call, predictorHealthy,
                 hist, loopVars, hbVars, eventLog, exceptScorer, weights>>

InitScorer ==
  /\ workers \in Pools
  /\ lastIndex = 0 - 1
  /\ DispatcherInit
  /\ ExtInit

NextScorer ==
  \/ \E partial \in WeightUpdates : updateWeights(partial)
  \/ \E p \in TaskPriorities, e \in Estimates : scoreTask(p, e)

SpecScorer == InitScorer /\ [][NextScorer]_vars

(* ------------------------- PredictionPersistence ---------------------- *)
\* HeuristicPredictor.initialize: connect, then load; a failure of either is
\* caught.  connect returns at once when already connected.
initialize(connectOk, loadOk) ==
  /\ pcall.pc # "saving"
  /\ IF persistence.connected \/ connectOk
     THEN /\ persistence' = [persistence EXCEPT !.connected = TRUE]
          /\ IF loadOk /\ snapshot.isSet
             THEN /\ predictions' = snapshot.value
                  /\ feedbackLog' = snapshot.log
             ELSE UNCHANGED predVars
     ELSE UNCHANGED <<persistence, predVars>>
  /\ UNCHANGED <<now, workers, lastIndex, circuitBreaker, redis, stream, call, predictorHealthy,
                 hist, loopVars, hbVars, eventLog, exceptPredictor,
                 snapshot, pcall>>

\* HeuristicPredictor.shutdown up to the await of the final save
shutdown ==
  /\ pcall.pc # "saving"
  /\ pcall' = IF persistence.connected
              THEN save("shutdown", predictions, feedbackLog)
              ELSE Settled("shutdown", "resolved")
  /\ UNCHANGED <<now, workers, lastIndex, circuitBreaker, redis, stream, call, predictorHealthy,
                 hist, loopVars, hbVars, eventLog, exceptPredictor,
                 predVars, persistence, snapshot>>

\* client.set settles: save resets the counter after a completed write, and
\* shutdown then disconnects; a rejected write rejects save, trackUpdate and
\* the feedback or shutdown call that awaits it
SetDone(ok) ==
  /\ pcall.pc = "saving"
  /\ IF ok
     THEN /\ snapshot' = [snapshot EXCEPT !.isSet = TRUE, !.value = pcall.data, !.log = pcall.log]
          /\ persistence' = [connected |-> IF pcall.op = "shutdown" THEN FALSE
                                           ELSE persistence.connected,
                             updatesSinceSnapshot |-> 0]
          /\ pcall' = [pcall EXCEPT !.pc = "resolved"]
     ELSE /\ snapshot' = [snapshot EXCEPT !.writeFailed = TRUE]
          /\ pcall' = [pcall EXCEPT !.pc = "rejected"]
          /\ UNCHANGED persistence
  /\ UNCHANGED <<now, workers, lastIndex, circuitBreaker, redis, stream, call, predictorHealthy,
                 hist, loopVars, hbVars, eventLog, exceptPredictor,
                 predVars>>

NextPersistence ==
  \/ \E c, l \in BOOLEAN : initialize(c, l)
  \/ \E d \in TrackedDurations, t \in TaskTypes \cup {NoType} : feedback(d, t)
  \/ \E ok \in BOOLEAN : SetDone(ok)
  \/ \E t \in TaskTypes : resetPrediction(t)
  \/ shutdown

SpecPersistence == Init /\ [][NextPersistence]_vars

(* ------------- CompletionSubscriber with a persisting predictor -------- *)
\* completions without a prediction processed, with no predictor set, before
\* the calls followed
EarlierCompletions == {0, ACCURACY_CHECK_EVERY - 2}

InitAccuracy ==
  /\ workers = <<>>
  /\ lastIndex = -1
  /\ DispatcherInit
  /\ PredInit /\ PersistInit /\ fallbackLog = NoFallback /\ ScorerInit
  /\ driftCall = NoDrift
  /\ ServiceInit
  /\ completionSubscriber \in
       {[isRunning |-> FALSE, completionCount |-> n, predictor |-> "null"] :
          n \in EarlierCompletions}
  /\ samples = <<>>
  /\ pending = IdlePending
  /\ feedbackHist = [recorded |-> <<>>, events |-> <<>>, calls |-> 0]

\* the subscriber with a HeuristicPredictor whose snapshot writes may fail
NextAccuracy ==
  \/ NextFeedback
  \/ \E c, l \in BOOLEAN : initialize(c, l)
  \/ \E ok \in BOOLEAN : SetDone(ok)

SpecAccuracy == InitAccuracy /\ [][NextAccuracy]_vars

(* ----------------------------- consume loop --------------------------- *)
\* start() up to its call of consumeLoop
startEffect ==
  /\ redis = "connected"
  /\ running' = TRUE
  /\ UNCHANGED <<now, workers, lastIndex, circuitBreaker, redis, stream, call, predictorHealthy,
                 hist, malformed, hbVars, eventLog>>

\* start(): the consumer group exists or is created, then the loop runs
start == startEffect /\ UNCHANGED extVars

stop ==
  /\ running
  /\ running' = FALSE
  /\ UNCHANGED <<now, workers, lastIndex, circuitBreaker, redis, stream, call, predictorHealthy,
                 hist, malformed, hbVars, eventLog, extVars>>

\* parseTask returns a task (TRUE) or null (FALSE)
parseTask(m) == m \notin malformed

\* one entry of an XREADGROUP ... '>' reply: the group delivers a message
\* that was never delivered before; the loop parses it and awaits dispatchTask
ConsumeEntry(m) ==
  /\ running
  /\ IF parseTask(m)
     THEN \E caps \in SUBSET Capabilities : DispatchStart(m, caps)
     ELSE /\ call.pc \in {"idle", "done"}
          /\ redis = "connected"
          /\ stream[m] = "new"
          /\ stream' = [stream EXCEPT ![m] = "pending"]
          /\ UNCHANGED <<now, workers, lastIndex, circuitBreaker, redis, call,
                         predictorHealthy, hist, auxVars>>

InitConsume ==
  /\ now = 0
  /\ workers = <<>>
  /\ lastIndex = -1
  /\ circuitBreaker = ClosedBreaker
  /\ redis = "null"
  /\ stream = [m \in MsgIds |-> "new"]
  /\ call = IdleCall
  /\ predictorHealthy = FALSE
  /\ hist = [published |-> {}, streak |-> 0, lastThrowAt |-> Null]
  /\ running = FALSE
  /\ malformed \in SUBSET MsgIds
  /\ HbInit
  /\ ExtInit
  /\ config = DEFAULT_CONFIG

NextConsume ==
  \/ connect
  \/ disconnect
  \/ start
  \/ stop
  \/ \E m \in MsgIds : ConsumeEntry(m)
  \/ \E caps \in SUBSET Capabilities : DispatchStart(NoMsg, caps)
  \/ \E o \in Outcomes : PredictDone(o)
  \/ \E ok \in BOOLEAN : PublishDone(ok)
  \/ \E ok \in BOOLEAN : XackDone(ok)
  \/ \E id \in WorkerIds : register(id, WorkerCapabilities(id))
  \/ \E id \in WorkerIds : updateStatus(id, "offline")

\* the loop takes its next entry and every awaited promise settles
SpecConsume ==
  /\ InitConsume
  /\ [][NextConsume]_vars
  /\ WF_vars(\E m \in MsgIds : ConsumeEntry(m))
  /\ WF_vars(\E o \in Outcomes : PredictDone(o))
  /\ WF_vars(\E ok \in BOOLEAN : PublishDone(ok))
  /\ WF_vars(\E ok \in BOOLEAN : XackDone(ok))

(* ------------------- consume loop, position by position --------------- *)
\* a loop that ignores the running flag
loopCondition_IgnoresStop == redis = "connected"

\* while (this.running && this.redis)
loopCondition == running /\ redis = "connected"

\* the top of the while loop: the next XREADGROUP is issued, or the loop ends
LoopTop == IF loopCondition THEN "reading" ELSE "exited"

\* start() with the consumeLoop it launches: the loop evaluates its condition
\* and issues its first XREADGROUP before start returns
startLoop(l) ==
  /\ startEffect
  /\ loops[l].pc = "none"
  /\ \A k \in LoopIds : k < l => loops[k].pc # "none"
  /\ loops' = [loops EXCEPT ![l] = [pc |-> LoopTop', batch |-> <<>>]]
  /\ UNCHANGED exceptLoop

LoopRest == <<now, workers, lastIndex, circuitBreaker, redis, call, predictorHealthy, hist,
              loopVars, hbVars, eventLog, exceptLoop>>

\* XREADGROUP resolves null after BLOCK 1000: continue
readNull(l) ==
  /\ loops[l].pc = "reading"
  /\ loops' = [loops EXCEPT ![l].pc = LoopTop]
  /\ UNCHANGED <<stream, LoopRest>>

\* the messages never delivered and not held in a batch, oldest first
RECURSIVE Ascending(_)
Ascending(S) ==
  IF S = {} THEN <<>>
  ELSE LET m == CHOOSE x \in S : \A y \in S : x <= y
       IN <<m>> \o Ascending(S \ {m})

Held == UNION {{loops[k].batch[i] : i \in 1..Len(loops[k].batch)} : k \in LoopIds}

Fresh == {m \in MsgIds : stream[m] = "new"} \ Held

\* XREADGROUP resolves with entries; an entry held in a batch stays "new" in
\* stream until the loop takes it
readBatch(l) ==
  /\ loops[l].pc = "reading"
  /\ redis = "connected"
  /\ Fresh # {}
  /\ loops' = [loops EXCEPT ![l] = [pc |-> "batch", batch |-> Ascending(Fresh)]]
  /\ UNCHANGED <<stream, LoopRest>>

\* XREADGROUP rejects: the catch block logs and sleeps one second
readThrows(l) ==
  /\ loops[l].pc = "reading"
  /\ loops' = [loops EXCEPT ![l].pc = "sleeping"]
  /\ UNCHANGED <<stream, LoopRest>>

sleepDone(l) ==
  /\ loops[l].pc = "sleeping"
  /\ loops' = [loops EXCEPT ![l].pc = LoopTop]
  /\ UNCHANGED <<stream, LoopRest>>

\* the loop after one entry of its batch: the next entry, or the top of the loop
AfterEntry(l) ==
  LET rest == Tail(loops[l].batch)
  IN [loops EXCEPT ![l] = IF rest = <<>> THEN [pc |-> LoopTop, batch |-> <<>>]
                                         ELSE [pc |-> "batch", batch |-> rest]]

\* the for loop takes the next entry: parseTask, then dispatchTask is awaited
loopEntry(l) ==
  /\ loops[l].pc = "batch"
  /\ stream[Head(loops[l].batch)] = "new"
  /\ LET m == Head(loops[l].batch)
     IN IF parseTask(m)
        THEN \E caps \in SUBSET Capabilities : DispatchStart(m, caps)
        ELSE /\ stream' = [stream EXCEPT ![m] = "pending"]
             /\ loops' = AfterEntry(l)
             /\ UNCHANGED LoopRest

\* the awaited dispatchTask has returned
entryDone(l) ==
  /\ loops[l].pc = "batch"
  /\ stream[Head(loops[l].batch)] # "new"
  /\ ~(call.msg = Head(loops[l].batch) /\ call.pc # "done")
  /\ loops' = AfterEntry(l)
  /\ UNCHANGED <<stream, LoopRest>>

ReadSettles(l) == readNull(l) \/ readBatch(l) \/ readThrows(l)

NextLoop ==
  \/ connect
  \/ \E l \in LoopIds : startLoop(l)
  \/ stop
  \/ \E l \in LoopIds : readNull(l)
  \/ \E l \in LoopIds : readBatch(l)
  \/ \E l \in LoopIds : readThrows(l)
  \/ \E l \in LoopIds : sleepDone(l)
  \/ \E l \in LoopIds : loopEntry(l)
  \/ \E l \in LoopIds : entryDone(l)
  \/ \E o \in Outcomes : PredictDone(o)
  \/ \E ok \in BOOLEAN : PublishDone(ok)
  \/ \E ok \in BOOLEAN : XackDone(ok)
  \/ \E id \in WorkerIds : register(id, WorkerCapabilities(id))

\* every awaited promise settles: the blocking read, the sleep, dispatchTask
SpecLoop ==
  /\ InitConsume
  /\ [][NextLoop]_vars
  /\ \A l \in LoopIds : WF_vars(ReadSettles(l)) /\ WF_vars(sleepDone(l))
                         /\ WF_vars(loopEntry(l)) /\ WF_vars(entryDone(l))
  /\ WF_vars(\E o \in Outcomes : PredictDone(o))
  /\ WF_vars(\E ok \in BOOLEAN : PublishDone(ok))
  /\ WF_vars(\E ok \in BOOLEAN : XackDone(ok))

(* --------------------------- SchedulerHandlers ------------------------ *)
\* req.body of PUT /scheduler/config; Null: the field is absent
ThresholdInputs == {Null, 0, 5}
TimeoutInputs == {Null, 500, 5000}

ConfigUpdates ==
  {[fallbackThreshold |-> f, heartbeatTimeoutMs |-> h] :
     f \in ThresholdInputs, h \in TimeoutInputs}

Respond(handler, workerId, status, responseWorkerId) ==
  [handler |-> handler, pc |-> "responded", workerId |-> workerId,
   response |-> [status |-> status, workerId |-> responseWorkerId],
   before |-> apiConfig]

\* updateConfig; the handler calls are followed one at a time
updateConfig(updates) ==
  /\ request.pc # "dispatching"
  /\ LET f == updates.fallbackThreshold
         h == updates.heartbeatTimeoutMs
         c1 == IF f # Null THEN [apiConfig EXCEPT !.fallbackThreshold = f] ELSE apiConfig
         c2 == IF h # Null THEN [c1 EXCEPT !.heartbeatTimeoutMs = h] ELSE c1
     IN IF f # Null /\ f < 1
        THEN /\ request' = Respond("updateConfig", "", 400, "")
             /\ UNCHANGED apiConfig
        ELSE IF h # Null /\ h < 1000
        THEN /\ request' = Respond("updateConfig", "", 400, "")
             /\ apiConfig' = c1
        ELSE /\ request' = Respond("updateConfig", "", 200, "")
             /\ apiConfig' = c2
  /\ UNCHANGED <<now, workers, lastIndex, circuitBreaker, redis, stream, call, predictorHealthy,
                 hist, loopVars, hbVars, eventLog, exceptHandlers>>

\* override up to its await of dispatcher.dispatchTask, or to its response
\* when the request is refused; workerId "": the field is missing
override(workerId) ==
  /\ request.pc # "dispatching"
  /\ IF workerId = "" \/ ~Has(workers, workerId)
        \/ get(workers, workerId).status \in {"offline", "draining"}
     THEN /\ request' = Respond("override", workerId,
                                IF workerId # "" /\ ~Has(workers, workerId) THEN 404 ELSE 400, "")
          /\ UNCHANGED <<lastIndex, circuitBreaker, stream, call>>
     ELSE /\ dispatchTask(NoMsg, {})
          /\ request' = [Respond("override", workerId, 0, "") EXCEPT !.pc = "dispatching"]
  /\ UNCHANGED <<now, workers, redis, predictorHealthy, hist, loopVars, hbVars, eventLog,
                 exceptHandlers, apiConfig>>

\* dispatchTask has returned: the response is built from its result
overrideDone ==
  /\ request.pc = "dispatching"
  /\ call.pc = "done"
  /\ request' = [request EXCEPT
                   !.pc = "responded",
                   !.response = IF call.success
                                THEN [status |-> 200, workerId |-> call.decision.workerId]
                                ELSE [status |-> 500, workerId |-> ""]]
  /\ UNCHANGED <<now, workers, lastIndex, circuitBreaker, redis, stream, call, predictorHealthy,
                 hist, loopVars, hbVars, eventLog, exceptHandlers, apiConfig>>

NextHandlers ==
  \/ connect
  \/ \E id \in WorkerIds : register(id, WorkerCapabilities(id))
  \/ \E id \in WorkerIds : updateStatus(id, "offline")
  \/ \E u \in ConfigUpdates : updateConfig(u)
  \/ \E id \in WorkerIds \cup {""} : override(id)
  \/ overrideDone
  \/ \E o \in Outcomes : PredictDone(o)
  \/ \E ok \in BOOLEAN : PublishDone(ok)

SpecHandlers == Init /\ [][NextHandlers]_vars

(* ------------- the Dispatcher with a HeuristicPredictor --------------- *)
\* mutant: the predictor recommends the first registered worker
predict_RecommendsFirst(taskType) ==
  [kind |-> "prediction",
   recommendedWorkerId |-> IF workers = <<>> THEN "" ELSE workers[1].id,
   estimatedDurationMs |-> IF predictions[taskType] # NoState THEN predictions[taskType].ema
                           ELSE defaultDurationMs]

\* HeuristicPredictor.predict: a duration estimate without a worker
predict(taskType) ==
  [kind |-> "prediction",
   recommendedWorkerId |-> "",
   estimatedDurationMs |-> IF predictions[taskType] # NoState THEN predictions[taskType].ema
                           ELSE defaultDurationMs]

NextHeuristic ==
  \/ \E m \in MsgIds \cup {NoMsg}, caps \in SUBSET Capabilities : DispatchStart(m, caps)
  \/ \E t \in TaskTypes : PredictDone(predict(t))
  \/ \E ok \in BOOLEAN : PublishDone(ok)
  \/ \E ok \in BOOLEAN : XackDone(ok)
  \/ connect
  \/ \E id \in WorkerIds : register(id, WorkerCapabilities(id))
  \/ \E id \in WorkerIds : updateStatus(id, "offline")
  \/ \E d \in TrackedDurations, t \in TaskTypes : feedback(d, t)

SpecHeuristic == Init /\ [][NextHeuristic]_vars

(* ---------------------------- ClickHouseWriter ------------------------ *)
\* records written; a record is named by its position in the write order
MaxRecords == 4
\* config.batchSize
batchSize == 2

WriterRest == <<now, workers, lastIndex, circuitBreaker, redis, stream, call, predictorHealthy,
                hist, loopVars, hbVars, eventLog, exceptWriter>>

\* connect(): the client is created and the flush timer started
writerConnect ==
  /\ clickHouseWriter.client = "null"
  /\ clickHouseWriter' = [clickHouseWriter EXCEPT !.client = "set"]
  /\ UNCHANGED <<inserts, writerHist, WriterRest>>

\* flush() up to its await of client.insert, on the buffer buf: the writer
\* and the inserts in flight afterwards
Flushed(buf) ==
  IF buf = <<>> \/ clickHouseWriter.client = "null"
  THEN [writer |-> [clickHouseWriter EXCEPT !.buffer = buf], inserts |-> inserts]
  ELSE [writer |-> [clickHouseWriter EXCEPT !.buffer = <<>>], inserts |-> inserts \cup {buf}]

\* write(record): push, then flush when the batch is full
write ==
  /\ writerHist.written < MaxRecords
  /\ LET rec == writerHist.written + 1
         pushed == Append(clickHouseWriter.buffer, rec)
         after == IF Len(pushed) >= batchSize
                  THEN Flushed(pushed)
                  ELSE [writer |-> [clickHouseWriter EXCEPT !.buffer = pushed],
                        inserts |-> inserts]
     IN /\ clickHouseWriter' = after.writer
        /\ inserts' = after.inserts
        /\ writerHist' = [writerHist EXCEPT !.written = rec]
  /\ UNCHANGED WriterRest

\* flush() called by the timer or by the owner, up to its await
flush ==
  /\ clickHouseWriter.buffer # <<>>
  /\ clickHouseWriter.client # "null"
  /\ clickHouseWriter' = Flushed(clickHouseWriter.buffer).writer
  /\ inserts' = Flushed(clickHouseWriter.buffer).inserts
  /\ UNCHANGED <<writerHist, WriterRest>>

\* client.insert settles: a rejected insert puts its records back in front
InsertDone(records, ok) ==
  /\ records \in inserts
  /\ inserts' = inserts \ {records}
  /\ IF ok
     THEN /\ writerHist' = [writerHist EXCEPT
                              !.inserted = @ \cup {records[i] : i \in 1..Len(records)}]
          /\ UNCHANGED clickHouseWriter
     ELSE /\ clickHouseWriter' = [clickHouseWriter EXCEPT !.buffer = records \o @]
          /\ UNCHANGED writerHist
  /\ UNCHANGED WriterRest

NextWriter ==
  \/ writerConnect
  \/ write
  \/ flush
  \/ \E records \in inserts, ok \in BOOLEAN : InsertDone(records, ok)

SpecWriter == Init /\ [][NextWriter]_vars

(* ================================ claims =============================== *)
InTrace(e) == \E i \in 1..Len(call.trace) : call.trace[i] = e

Rank(e) ==
  CASE e = "predict" -> 0
    [] e = "decision" -> 1
    [] e = "publish" -> 2
    [] e = "published" -> 3
    [] e = "xack" -> 4

PublishFailed == call.pc = "done" /\ InTrace("publish") /\ ~InTrace("published")

\* C1: the xack of a message is issued only after the publish of its task
\* succeeded; a failed publish gives success = false with the chosen decision
\* and an error, and the message is not acknowledged.
C1_AckOnlyAfterPublish ==
  /\ InTrace("xack") => InTrace("published")
  /\ \A m \in MsgIds : stream[m] = "acked" => m \in hist.published
  /\ PublishFailed =>
       /\ ~call.success
       /\ call.decision.workerId # ""
       /\ call.decision.reason \in {"prediction", "fallback_round_robin", "fallback_circuit_breaker"}
       /\ call.error # ""
       /\ ~InTrace("xack")
       /\ call.msg # NoMsg => stream[call.msg] # "acked"

C1_Witness ==
  PublishFailed /\ call.msg # NoMsg /\ stream[call.msg] = "pending" /\ ~call.success

\* C2: within one dispatch the events occur in the order decision, publish,
\* ack: no ack without an earlier publish, no publish without an earlier decision.
C2_DecisionPublishAckOrder ==
  /\ \A i, j \in 1..Len(call.trace) : i < j => Rank(call.trace[i]) < Rank(call.trace[j])
  /\ InTrace("publish") => InTrace("decision")
  /\ InTrace("xack") => InTrace("publish")

C2_Witness ==
  /\ call.pc = "done"
  /\ call.msg # NoMsg
  /\ stream[call.msg] = "acked"
  /\ InTrace("decision") /\ InTrace("publish") /\ InTrace("xack")

\* C3 (as claimed): every decision with an assigned worker names a worker that
\* was in getAvailable(requiredCapabilities) at the moment of selection.
C3_ChosenWorkerAvailable ==
  (call.decision.reason # "none" /\ call.decision.workerId # "") => call.selectedAvailable

\* C4: the breaker is open exactly when failures >= fallbackThreshold.
C4_OpenIffThreshold ==
  circuitBreaker.isOpen <=> circuitBreaker.failures >= FallbackThreshold

C4_Witness == circuitBreaker.isOpen /\ circuitBreaker.failures = FallbackThreshold

\* C5: from a closed breaker with 0 failures, after k consecutive dispatches
\* whose predict threw the state is {failures: k, isOpen: k >= N}, and the
\* time of the last failure is recorded.
C5_OpensOnNthFailure ==
  hist.streak >= 0 =>
    /\ circuitBreaker.failures = hist.streak
    /\ circuitBreaker.isOpen = (hist.streak >= FallbackThreshold)
    /\ hist.streak > 0 => circuitBreaker.lastFailure = hist.lastThrowAt /\ hist.lastThrowAt # Null

C5_Witness ==
  hist.streak = FallbackThreshold /\ circuitBreaker.isOpen /\ call.pred = "throws"

\* C6 (as claimed): once the breaker is open and the predictor has recovered,
\* some later dispatch closes the breaker.
C6_OpenBreakerCloses ==
  (predictorHealthy /\ circuitBreaker.isOpen) ~> ~circuitBreaker.isOpen

\* C7 (as claimed): a dispatch started with the breaker open does not call
\* predict and its result carries usedFallback = true and reason
\* fallback_circuit_breaker.
C7_OpenUsesCircuitBreakerReason ==
  (call.pc = "done" /\ call.startedOpen) =>
    /\ ~InTrace("predict")
    /\ call.decision.usedFallback
    /\ call.decision.reason = "fallback_circuit_breaker"

\* C8: a prediction naming a registered worker that is neither offline nor
\* draining gives reason = prediction, usedFallback = false and a fully reset
\* breaker, whatever number of failures preceded it.
C8_SuccessfulPredictionResets ==
  call.pred = "valid" =>
    /\ call.decision.reason = "prediction"
    /\ ~call.decision.usedFallback
    /\ circuitBreaker.failures = 0
    /\ circuitBreaker.lastFailure = Null
    /\ ~circuitBreaker.isOpen

C8_Witness == call.pc = "done" /\ call.pred = "valid" /\ call.failedBefore

\* C9 (as claimed): a prediction naming a missing or offline/draining worker
\* falls back to round-robin and increments the breaker's failure counter.
C9_InvalidPredictionCounted ==
  [][(call.pc = "predict" /\ call'.pred = "invalid") =>
       circuitBreaker'.failures = circuitBreaker.failures + 1]_vars

\* C10: with no valid prediction and no eligible worker the result is
\* success = false with error 'No workers available'; nothing is published
\* and the stream message is not acknowledged.
C10_NoWorkersAvailable ==
  (call.pc = "done" /\ call.pred # "valid" /\ call.noneAvailable) =>
    /\ ~call.success
    /\ call.error = "No workers available"
    /\ ~InTrace("publish")
    /\ ~InTrace("xack")
    /\ call.msg # NoMsg => stream[call.msg] = "pending"

C10_Witness ==
  /\ call.pc = "done"
  /\ call.noneAvailable
  /\ call.pred # "valid"
  /\ call.msg # NoMsg
  /\ call.error = "No workers available"

(* ------------------------ consume loop (C11..C13) --------------------- *)
\* message m was read by the loop and its dispatch ended without an ack
Unacked(m) ==
  stream[m] = "pending" /\ call.msg = m /\ call.pc = "done" /\ ~call.success

\* m reached the loop again (a new dispatchTask for it) or was acknowledged
Redelivered(m) ==
  \/ call.msg = m /\ call.pc \in {"predict", "publish", "xack"}
  \/ stream[m] = "acked"

\* C11: while the dispatcher keeps running, a message that was read and not
\* acknowledged (no worker available, or the publish failed) is eventually
\* delivered to the consume loop again and re-dispatched
C11_UnackedRedelivered ==
  \A m \in MsgIds : (running /\ Unacked(m)) ~> (~running \/ Redelivered(m))

\* C12: a message whose fields do not parse into a task is dropped and
\* acknowledged: the loop never dispatches it and never leaves it pending
C12_MalformedAcked ==
  \A m \in malformed : stream[m] # "pending" /\ call.msg # m

\* C13: dispatchTask never throws or rejects: whatever the predictor, the
\* publish and the ack do, it resolves to a DispatchResult with success = true,
\* or success = false and an error
C13_DispatchNeverRejects ==
  /\ call.pc \in {"idle", "predict", "publish", "xack", "done"}
  /\ call.pc = "done" => (call.success \/ call.error # "")

\* the predictor threw and the ack was rejected, and the call still resolved
C13_Witness ==
  call.pc = "done" /\ call.pred = "throws" /\ ~call.success /\ call.error = "xack failed"

(* ----------------------------- registry (C14, C15) -------------------- *)
\* the registered workers that meet the four conditions of the claim
Eligible(capabilities) ==
  {i \in 1..Len(workers) :
     /\ workers[i].status \in {"idle", "busy"}
     /\ now - workers[i].lastHeartbeat <= HeartbeatTimeoutMs
     /\ workers[i].activeTasks < workers[i].maxConcurrency
     /\ \A cap \in capabilities : cap \in workers[i].capabilities}

\* C14: getAvailable(capabilities) returns exactly the registered workers that
\* are not offline or draining, have a heartbeat within heartbeatTimeoutMs of
\* now, have activeTasks < maxConcurrency and hold every requested capability
C14_GetAvailableExact ==
  \A capabilities \in SUBSET Capabilities :
    LET available == getAvailable(workers, capabilities, now)
    IN /\ {available[k].id : k \in 1..Len(available)}
            = {workers[i].id : i \in Eligible(capabilities)}
       /\ \A k \in 1..Len(available) : Has(workers, available[k].id)
                                          /\ get(workers, available[k].id) = available[k]
       /\ Len(available) = Cardinality(Eligible(capabilities))

\* one worker is returned and another, at max capacity, is left out
C14_Witness ==
  /\ Len(workers) = 2
  /\ Len(getAvailable(workers, {}, now)) = 1
  /\ \E i \in 1..2 : /\ workers[i].activeTasks >= workers[i].maxConcurrency
                       /\ workers[i].status = "idle"
                       /\ now - workers[i].lastHeartbeat = HeartbeatTimeoutMs

\* C15: after any sequence of registry operations every registered worker's
\* currentLoad lies in [0,1] (0..100 percent)
C15_LoadInUnitInterval ==
  \A i \in 1..Len(workers) : workers[i].currentLoad >= 0 /\ workers[i].currentLoad <= 100

(* ----------------------- heartbeat subscriber (C16..C19) -------------- *)
\* the age of a registered worker's last heartbeat when the reaper runs
Age(id) == now - get(workers, id).lastHeartbeat

\* C16: after every reaper pass each worker whose last-heartbeat age is at
\* least unhealthyTimeout and below removedTimeout has registry status offline,
\* and exactly one worker_unhealthy event was emitted for it since it went stale
C16_UnhealthyOfflineOnce ==
  (config = DEFAULT_CONFIG /\ healthCheckInterval) =>
    \A id \in WorkerIds :
      (/\ Has(workers, id)
       /\ Age(id) >= config.unhealthyTimeoutMs
       /\ Age(id) < config.removedTimeoutMs)
        => /\ Has(Checked.workers, id)
           /\ get(Checked.workers, id).status = "offline"
           /\ Checked.eventLog[id].unhealthy = 1

\* C17: a reaper pass deletes every worker whose last-heartbeat age is at
\* least removedTimeout from the registry and the capacity map and
\* worker_removed is emitted for it exactly once; no worker_removed is emitted
\* for a worker that remains registered
C17_RemovedOnce ==
  /\ (config = DEFAULT_CONFIG /\ healthCheckInterval) =>
       \A id \in WorkerIds :
         (Has(workers, id) /\ Age(id) >= config.removedTimeoutMs)
           => /\ ~Has(Checked.workers, id)
              /\ Checked.workerCapacity[id] = NoCapacity
              /\ Checked.eventLog[id].removed = 1
  /\ \A id \in WorkerIds : Has(workers, id) => eventLog[id].removed = 0

\* what C18 asks of a reaper pass with thresholds c
ClassifiedWith(c) ==
  \A id \in WorkerIds :
    Has(workers, id) =>
      IF Age(id) >= c.removedTimeoutMs
      THEN ~Has(Checked.workers, id)
      ELSE IF Age(id) >= c.unhealthyTimeoutMs
      THEN /\ Has(Checked.workers, id)
           /\ \/ get(Checked.workers, id).status = "offline"
              \/ previousHealth(id) \in {"unhealthy", "removed"}
      ELSE TRUE

\* C18: the reaper classifies with the configured thresholds: a pass leaves a
\* worker whose age is at least unhealthyTimeoutMs offline (or already known
\* as unhealthy) and removes a worker whose age is at least removedTimeoutMs
C18_ConfiguredThresholds == healthCheckInterval => ClassifiedWith(config)

\* C19: unsubscribe cancels the stream once, stops the health check timer and
\* makes isSubscribed false; when there is no stream it changes nothing; the
\* timer never runs without a stream, and no stream is cancelled twice
C19_UnsubscribeIdempotent ==
  /\ [][unsubscribe =>
          /\ grpcStream' = NoStream /\ ~healthCheckInterval' /\ ~isRunning'
          /\ grpcStream # NoStream => streams'[grpcStream] = "cancelled"
          /\ (grpcStream = NoStream /\ ~isRunning) => UNCHANGED vars]_vars
  /\ [](grpcStream = NoStream => ~healthCheckInterval /\ ~isRunning)
  /\ [](\A s \in StreamIds : streams[s] # "cancelledTwice")

\* the subscriber was unsubscribed while workers were stale and unreaped
C19_Witness ==
  /\ grpcStream = NoStream /\ ~healthCheckInterval /\ ~isRunning
  /\ \E s \in StreamIds : streams[s] = "cancelled"
  /\ \E i \in 1..Len(workers) : /\ now - workers[i].lastHeartbeat >= UNHEALTHY_TIMEOUT_MS
                                  /\ workers[i].status = "idle"

(* ------------------------------ predictor (C20) ----------------------- *)
RECURSIVE EmaFold(_)
\* the EMA folded over a non-empty sample history: the first sample, then
\* alpha * sample + (1 - alpha) * ema for every later one
EmaFold(durations) ==
  IF Len(durations) = 1 THEN durations[1] * EmaScale
  ELSE (Alpha * durations[Len(durations)] * EmaScale
        + (10 - Alpha) * EmaFold(SubSeq(durations, 1, Len(durations) - 1))) \div 10

\* C20: over the feedback calls for a task type since its last reset, the
\* sampleCount is the number of calls and ema is the EMA folded over the
\* samples (the first sample sets ema = actual)
C20_EmaFoldedOverHistory ==
  \A t \in TaskTypes :
    IF feedbackLog[t] = <<>>
    THEN predictions[t] = NoState
    ELSE /\ predictions[t].sampleCount = Len(feedbackLog[t])
         /\ predictions[t].ema = EmaFold(feedbackLog[t])

\* C20: a feedback call for one task type adds one sample to it and leaves
\* the state of every other task type unchanged
C20_OneSampleOneType ==
  [][\A t \in TaskTypes :
       (feedbackLog'[t] # feedbackLog[t] /\ feedbackLog'[t] # <<>>)
         => /\ Len(feedbackLog'[t]) = Len(feedbackLog[t]) + 1
            /\ predictions'[t].sampleCount =
                 (IF predictions[t] = NoState THEN 0 ELSE predictions[t].sampleCount) + 1
            /\ \A u \in TaskTypes \ {t} : predictions'[u] = predictions[u]]_vars

\* C20: the feedback history of each task type determines its EMA state
C20_FeedbackFold == []C20_EmaFoldedOverHistory /\ C20_OneSampleOneType

\* one type has three samples of different durations, the other has one
C20_Witness ==
  /\ Len(feedbackLog["build"]) = 3
  /\ feedbackLog["build"][1] # feedbackLog["build"][2]
  /\ predictions["build"].sampleCount = 3
  /\ predictions["test"].sampleCount = 1
(* --------------------------- persistence (C21, C22) ------------------- *)
\* C21: a feedback call whose snapshot write fails does not raise: the call
\* is never rejected
C21_FeedbackSurvivesFailedWrite ==
  pcall.op = "feedback" => pcall.pc # "rejected"

\* C22: with writes succeeding, the counter is below snapshotInterval after
\* every completed call
C22_CounterBelowInterval ==
  (~snapshot.writeFailed /\ pcall.pc # "saving")
    => persistence.updatesSinceSnapshot \in 0..(snapshotInterval - 1)

\* C22: with persistence connected, a feedback with a task type adds one to
\* the counter; the one that brings it to snapshotInterval issues a write of
\* the full map, and no other feedback writes
C22_FeedbackCounts ==
  [][\A d \in TrackedDurations, t \in TaskTypes :
       (feedback(d, t) /\ persistence.connected /\ ~snapshot.writeFailed)
         => /\ persistence'.updatesSinceSnapshot = persistence.updatesSinceSnapshot + 1
            /\ IF persistence'.updatesSinceSnapshot = snapshotInterval
               THEN pcall'.pc = "saving" /\ pcall'.data = predictions'
               ELSE pcall'.pc = "resolved"]_vars

\* C22: the completed write stores the map under the key and returns the
\* counter to 0
C22_WriteResets ==
  [][(SetDone(TRUE) /\ pcall.op = "feedback")
       => /\ snapshot'.isSet /\ snapshot'.value = pcall.data
          /\ persistence'.updatesSinceSnapshot = 0
          /\ pcall'.pc = "resolved"]_vars

EligiblePool == getAvailable(workers, {}, now)

\* how often a worker was selected by the schedule calls so far
TimesPicked(id) ==
  Cardinality({i \in 1..Len(fallbackLog.picked) : fallbackLog.picked[i] = id})

\* C23: after N consecutive schedule calls over K >= 1 eligible workers,
\* each of them was selected floor(N/K) or ceil(N/K) times, whatever the
\* starting cursor
C23_RoundRobinFair ==
  LET K == Len(EligiblePool)
      N == Len(fallbackLog.picked)
  IN K >= 1 =>
       /\ \A i \in 1..K :
            /\ TimesPicked(EligiblePool[i].id) >= N \div K
            /\ TimesPicked(EligiblePool[i].id) <= (N + K - 1) \div K
       /\ \A j \in 1..N : \E i \in 1..K : fallbackLog.picked[j] = EligiblePool[i].id

\* five calls over three eligible workers: two selected twice, one once
C23_Witness ==
  /\ Len(EligiblePool) = 3
  /\ Len(fallbackLog.picked) = 5
  /\ \E i \in 1..3 : TimesPicked(EligiblePool[i].id) = 1
(* ------------------------ fallback scheduler (C29) -------------------- *)
\* a comes before b in the order (currentLoad, activeTasks / maxConcurrency)
LexLess(a, b) ==
  \/ a.currentLoad < b.currentLoad
  \/ /\ a.currentLoad = b.currentLoad
     /\ a.activeTasks * b.maxConcurrency < b.activeTasks * a.maxConcurrency

\* C29: scheduleByLoad returns null when no worker is eligible; otherwise a
\* fallback decision with the supplied reason for an eligible worker that no
\* other eligible worker precedes in the order (currentLoad, active ratio)
C29_LowestLoadSelected ==
  LET d == fallbackLog.byLoad.decision
  IN fallbackLog.byLoad.called =>
       IF Len(EligiblePool) = 0
       THEN d = NoDecision
       ELSE /\ d.usedFallback /\ d.reason = fallbackLog.byLoad.reason
            /\ \E i \in 1..Len(EligiblePool) :
                 /\ EligiblePool[i].id = d.workerId
                 /\ \A j \in 1..Len(EligiblePool) : ~LexLess(EligiblePool[j], EligiblePool[i])
(* ----------------------- completion feedback (C24, C25) --------------- *)
\* C24: a processCompletion call on a stopped subscriber changes nothing:
\* no count, no accuracy sample, no predictor feedback, no event
C24_StoppedIsNoOp ==
  [][\A c \in Completions :
       (processCompletion(c) /\ ~completionSubscriber.isRunning)
         => /\ completionSubscriber' = completionSubscriber
            /\ samples' = samples
            /\ feedbackHist'.recorded = feedbackHist.recorded
            /\ feedbackHist'.events = feedbackHist.events
            /\ UNCHANGED <<predictions, feedbackLog, persistence, snapshot, pcall>>]_vars

\* the second call arrived after stop with a prediction that would have been
\* recorded: only the first one was counted
C24_Witness ==
  /\ ~completionSubscriber.isRunning
  /\ completionSubscriber.predictor = "set"
  /\ pending.pc = "done" /\ pending.completion.predictedDurationMs = 3000
  /\ feedbackHist.calls = 2
  /\ completionSubscriber.completionCount = 1
  /\ feedbackHist.recorded = <<>>
  /\ Len(feedbackHist.events) = 1

\* C25: the tracker holds at most windowSize samples, and they are the most
\* recent ones recorded (since the last clear), in arrival order
C25_WindowHoldsMostRecent ==
  LET n == Len(feedbackHist.recorded)
      held == IF n < windowSize THEN n ELSE windowSize
  IN /\ Len(samples) <= windowSize
     /\ Len(samples) = held
     /\ samples = SubSeq(feedbackHist.recorded, n - held + 1, n)

\* three different samples were recorded: the oldest one was evicted
C25_Witness ==
  /\ Len(feedbackHist.recorded) = windowSize + 1
  /\ Len(samples) = windowSize
  /\ feedbackHist.recorded[1] # feedbackHist.recorded[2]
  /\ feedbackHist.recorded[2] # feedbackHist.recorded[3]
  /\ samples[1] = feedbackHist.recorded[2]
(* ------------------------------ drift (C26) --------------------------- *)
\* C26: for predicted > 0, drift is reported exactly when the ratio
\* actual / predicted is below 1/2 or above 2; a drift is minor when the
\* ratio is within [1/3, 3] and major beyond; without drift severity is none
C26_DriftClassified ==
  LET p == driftCall.predicted
      a == driftCall.actual
      isDrift == 2 * a < p \/ a > 2 * p
  IN (driftCall.called /\ p > 0) =>
       /\ driftCall.result.isDrift = isDrift
       /\ driftCall.result.severity =
            IF ~isDrift THEN "none"
            ELSE IF 3 * a >= p /\ a <= 3 * p THEN "minor" ELSE "major"
(* ----------------------------- scorer (C27, C28) ---------------------- *)
\* the candidate list in another order
Reordered(candidates, perm) == [i \in 1..Len(candidates) |-> candidates[perm[i]]]

Orders(n) == {perm \in [1..n -> 1..n] : \A i, j \in 1..n : perm[i] = perm[j] => i = j}

\* C27: the worker chosen by score does not depend on the order in which
\* the candidates are listed
C27_TieBrokenByWorkerId ==
  scoreCall.called =>
    \A perm \in Orders(Len(workers)) :
      score(Reordered(workers, perm), scoreCall.weights, scoreCall.priority,
            scoreCall.estimatedDurationMs) = scoreCall.workerId

\* C28: the weights used by a score call satisfy validateWeights
C28_ScoredWithValidWeights ==
  scoreCall.called => validateWeights(scoreCall.weights)

\* C30: after stop() on a running Dispatcher, with no further start(), isRunning()
\* is false as soon as stop() returns; a loop issues no new XREADGROUP (the read
\* in flight and the batch in hand are finished first); and every loop exits
C30_StopClearsRunning == [][stop => ~running']_vars

C30_NoReadAfterStop ==
  [][\A l \in LoopIds :
       (~running /\ ~running' /\ loops'[l].pc = "reading") => loops[l].pc = "reading"]_vars

C30_LoopExits ==
  \A l \in LoopIds :
    (~running /\ loops[l].pc # "none") ~> (running \/ loops[l].pc = "exited")

C30_StopEndsLoop == C30_StopClearsRunning /\ C30_NoReadAfterStop /\ C30_LoopExits

\* stop() arrived while the loop held a batch whose entry was then dispatched
\* and acknowledged, and the loop has exited
C30_Witness ==
  /\ ~running
  /\ loops[1].pc = "exited"
  /\ loops[2].pc = "none"
  /\ \E m \in MsgIds : stream[m] = "acked"


Warnings ==
  Cardinality({i \in 1..Len(feedbackHist.events) :
                 feedbackHist.events[i].type = "accuracy_warning"})

\* a processCompletion call ends in this step
CallEnds ==
  \/ pending.pc = "feedback" /\ pending'.pc # "feedback"
  \/ feedbackHist'.calls = feedbackHist.calls + 1 /\ pending'.pc # "feedback"

\* C31: a processCompletion call emits accuracy_warning exactly when the
\* completion it processed is the 100th, 200th, ... since construction or
\* the last reset, and the window is then non-empty with accuracy below 0.8
C31_WarningAtEveryHundredth ==
  [][/\ CallEnds =>
          Warnings' = Warnings +
            (IF /\ pending'.number > 0
                /\ pending'.number % ACCURACY_CHECK_EVERY = 0
                /\ isAccuracyBelowTarget(samples')
             THEN 1 ELSE 0)
     /\ ~CallEnds => Warnings' = Warnings]_vars

\* C32: whenever override responds with success, the task was published on
\* the channel of the requested worker and the response names that worker
C32_OverrideAssignsRequested ==
  (request.handler = "override" /\ request.pc = "responded" /\ request.response.status = 200)
    => /\ request.response.workerId = request.workerId
       /\ call.decision.workerId = request.workerId
       /\ InTrace("published")

\* C39: an updateConfig request answered with status 400 leaves the
\* configuration as it was before the request
C39_RejectedUpdateChangesNothing ==
  (request.handler = "updateConfig" /\ request.response.status = 400)
    => apiConfig = request.before

\* C33: at most one consume loop is active (reading, processing a batch or
\* sleeping after an error) at any time
C33_AtMostOneLoop ==
  Cardinality({l \in LoopIds : loops[l].pc \in {"reading", "batch", "sleeping"}}) <= 1

\* C34: dispatchTask returns success = true only if the assignment was
\* published on the chosen worker's channel
C34_SuccessMeansPublished ==
  (call.pc = "done" /\ call.success) => InTrace("published")

\* C36: a step of dispatchTask leaves the registry as it was, and with it the
\* set of eligible workers for every capability requirement
C36_DispatchLeavesRegistry ==
  [][call' # call =>
       /\ workers' = workers
       /\ \A caps \in SUBSET Capabilities :
            AvailableIds(workers', caps, now') = AvailableIds(workers, caps, now)]_vars

\* a dispatch published its assignment and the chosen worker is as idle and
\* as eligible as before
C36_Witness ==
  /\ call.pc = "done" /\ call.success /\ InTrace("published")
  /\ Has(workers, call.decision.workerId)
  /\ get(workers, call.decision.workerId).activeTasks = 0
  /\ call.decision.workerId \in AvailableIds(workers, {}, now)

\* C37: with a HeuristicPredictor and no worker registered under the empty
\* id, every decision of dispatchTask is a fallback decision, never one with
\* reason = prediction
C37_HeuristicAlwaysFallsBack ==
  call.decision # NoDecision =>
    /\ call.decision.usedFallback
    /\ call.decision.reason # "prediction"

\* a dispatch after the predictor has learnt a duration: the prediction named
\* no worker and the round-robin fallback chose one
C37_Witness ==
  /\ call.pc = "done" /\ call.success
  /\ call.pred = "invalid"
  /\ call.decision.reason = "fallback_round_robin"
  /\ \E t \in TaskTypes : predictions[t] # NoState

IsOffline(ws, id) == Has(ws, id) /\ get(ws, id).status = "offline"

\* C35: a heartbeat leaves the status and the activeTasks of every worker as
\* they were; so an offline worker that remains registered stays offline and
\* outside getAvailable through every step that is not a register call
C35_HeartbeatKeepsStatus ==
  [][/\ (\E st \in StreamIds, hb \in Heartbeats : StreamData(st, hb)) =>
          /\ Len(workers') = Len(workers)
          /\ \A i \in 1..Len(workers) :
               /\ workers'[i].id = workers[i].id
               /\ workers'[i].status = workers[i].status
               /\ workers'[i].activeTasks = workers[i].activeTasks
     /\ \A id \in WorkerIds :
          (IsOffline(workers, id) /\ Has(workers', id)) =>
             \/ /\ IsOffline(workers', id)
                /\ \A caps \in SUBSET Capabilities : id \notin AvailableIds(workers', caps, now')
             \/ register(id, WorkerCapabilities(id))]_vars

\* the reaper forced the worker offline and a later heartbeat, fresh and
\* healthy, has been processed: the worker is still offline
C35_Witness ==
  \E id \in WorkerIds :
    /\ IsOffline(workers, id)
    /\ workerCapacity[id] # NoCapacity
    /\ workerCapacity[id].healthStatus = "healthy"
    /\ get(workers, id).lastHeartbeat = now
    /\ now > 0

\* the subscriber holds a stream that is open
ActiveStream == grpcStream # NoStream /\ streams[grpcStream] = "open"

\* C38: events delivered by a replaced stream have no effect: isSubscribed()
\* stays true while the current stream is active, and heartbeats of the
\* replaced stream change neither the registry nor the capacity map
C38_ReplacedStreamIsSilent ==
  /\ [](ActiveStream => isRunning)
  /\ [][(\E s \in StreamIds, hb \in FreshHeartbeats : LateStreamData(s, hb)) =>
          (workers' = workers /\ workerCapacity' = workerCapacity)]_vars

Elements(q) == {q[i] : i \in 1..Len(q)}

\* C40: every record written and not inserted is in the buffer or in an
\* insert in flight, once; and the buffer lists its records in write order
C40_BufferInWriteOrder ==
  /\ \A i, j \in 1..Len(clickHouseWriter.buffer) :
       i < j => clickHouseWriter.buffer[i] < clickHouseWriter.buffer[j]
  /\ (Elements(clickHouseWriter.buffer) \cup UNION {Elements(b) : b \in inserts})
       = (1..writerHist.written) \ writerHist.inserted
====
